---- MODULE Spec2Model ----
(***************************************************************************)
(* Model of stability_sdk.animation.Animator: the per-frame render loop,   *)
(* its cadence scheduling (synthesize or tween), the two-slot window of    *)
(* prior frames with its accumulated transforms, and resume from disk.     *)
(*                                                                         *)
(* Images are terms that name the call that produced them.  Transforms are *)
(* words of a free monoid: identity is <<>>, matrix.multiply(a, b) is      *)
(* a \o b, and the increment of a moving frame f is the one-letter word    *)
(* <<f + 1>>, so two accumulated transforms are equal only if they are     *)
(* the same product, in the same order, of the same increments.            *)
(* Series values are counted in quarters (11 is 2.75).                     *)
(*                                                                         *)
(* Covered: the 2D and 3D animation modes, with and without                *)
(* accumulate_xforms, with and without an init image, the seed, the depth  *)
(* maps, the prompt schedule and the negative prompt, Api calls that       *)
(* raise, and a later Animator that resumes on the same out_dir.  The      *)
(* backend is taken at its documented contract: Api.transform returns one  *)
(* image for each image it is given.  Weights are exact fractions          *)
(* <<numerator, denominator>>.                                             *)
(*                                                                         *)
(* Spec draws the settings that shape the window and the cadence; SpecRun  *)
(* draws those that shape a run (seed, depth maps, failures, resume);      *)
(* SpecPrompts draws prompt schedules and frame indices and resolves the   *)
(* prompts of one frame; SpecSteps draws steps, strength and noise;        *)
(* SpecMask draws 2D runs with a mask; SpecSetMask follows the mask of a   *)
(* mask video; SpecCurves expands keyframe curves and takes the settings   *)
(* through save_settings and a reload; SpecUi is animation_ui's render     *)
(* tab iterating the generator, with its Stop button.                      *)
(* SpecSeed draws the seed setup_animation leaves in args, written in two  *)
(* 16-bit limbs; SpecRequest is the retry loop of Api._run_request in      *)
(* stability_sdk.client, and SpecRequestFair adds that the loop runs on.   *)
(***************************************************************************)
EXTENDS Integers, Sequences, FiniteSets, TLC

MaxFrames == 3

\* prompt schedules: at most MaxEntries entries with keys in 0 .. MaxKey,
\* resolved at the frame indices 0 .. MaxPromptFrame
MaxEntries == 3

MaxKey == 4

MaxPromptFrame == 5

\* keyframe curves: at most MaxKeyframes keyframes at the frames
\* 0 .. MaxCurveKey, expanded over 1 .. MaxCurveFrames frames
MaxKeyframes == 3

MaxCurveKey == 4

MaxCurveFrames == 5

\* Api._max_retries is drawn from 0 .. MaxRetries
MaxRetries == 3

VARIABLES
    args,                   \* Animator.args: the settings of the run
    frame_args,             \* Animator.frame_args: the per-frame series
    start_frame_idx,        \* Animator.start_frame_idx
    diffusion_cadence_ofs,  \* Animator.diffusion_cadence_ofs
    prior_frames,           \* Animator.prior_frames
    prior_diffused,         \* Animator.prior_diffused
    prior_xforms,           \* Animator.prior_xforms
    frame_idx,              \* render: the loop variable
    pc,                     \* render: position of the generator
    out_dir,                \* the frame_k.png files of out_dir: k |-> image
    loc,                    \* render: locals of the iteration last entered
    calls,                  \* Api methods called in that iteration, in order
    seed,                   \* render: the running seed
    depth_maps,             \* the depth_k.png files of out_dir: k |-> image
    yielded,                \* indices this render has written and yielded
    resume,                 \* the resume argument of the Animator
    prompt_entries,         \* the keys of the schedule as the caller wrote it
    animation_prompts,      \* Animator.animation_prompts: key |-> prompt
    key_frame_values,       \* Animator.key_frame_values
    negative_prompt,        \* Animator.negative_prompt
    negative_prompt_weight, \* Animator.negative_prompt_weight
    mask,                   \* Animator.mask: one pixel of it, loaded and stored
    saved,                  \* the settings document save_settings wrote
    interrupt,              \* animation_ui: the global interrupt flag
    ui,                     \* animation_ui: the render tab and its render()
    rq                      \* Api._run_request: the request and the retry loop

vars == <<args, frame_args, start_frame_idx, diffusion_cadence_ofs,
          prior_frames, prior_diffused, prior_xforms, frame_idx, pc,
          out_dir, loc, calls, seed, depth_maps, yielded, resume,
          prompt_entries, animation_prompts, key_frame_values,
          negative_prompt, negative_prompt_weight, mask, saved, interrupt, ui,
          rq>>

Max(a, b) == IF a >= b THEN a ELSE b

Min(a, b) == IF a <= b THEN a ELSE b

----------------------------------------------------------------------------
(* Inputs *)

\* values of diffusion_cadence_series, in quarters: 0.5, 2.75, 3.0
CadenceValues == {2, 11, 12}

\* motion parameters of a frame (2D: angle, zoom, translation_x/y; 3D:
\* translation_x/y/z, rotation_x/y/z): 0 is all neutral, 1 is a motion
MotionValues == {0, 1}

AnimationModes == {"2D", "3D"}

----------------------------------------------------------------------------
(* Transforms: stability_sdk.matrix *)

identity == <<>>

multiply(a, b) == a \o b

----------------------------------------------------------------------------
(* Images *)

Img(op, n, srcs, m) == [op |-> op, n |-> n, srcs |-> srcs, m |-> m]

NoImage == Img("none", <<>>, <<>>, identity)

\* the image of args.init_image, resized by load_init_image
InitImage == Img("init_image", <<>>, <<>>, identity)

\* cv2.imread of frame_k.png
FrameFile(k) == Img("imread", <<k>>, <<>>, identity)

----------------------------------------------------------------------------
(* Api: stability_sdk.client *)

\* Api.generate: the image synthesized for frame f from the given init
ApiGenerate(f, init) == Img("generate", <<f>>, init, identity)

\* Api.transform of one image by one operation
ApiTransformImage(op, f, image, m) == Img(op, <<f>>, <<image>>, m)

\* Api.transform: one image artifact for each image
ApiTransform(op, f, images, m) ==
    [i \in 1 .. Len(images) |-> ApiTransformImage(op, f, images[i], m)]

\* Api.interpolate with one ratio num/den
ApiInterpolate(images, num, den) ==
    IF num = 0 THEN images[1]
    ELSE IF num = den THEN images[2]
    ELSE Img("interpolate", <<num, den>>, images, identity)

\* A seed is a Python integer; it is written in two limbs <<high, low>> of
\* 16 bits, so that 2**32 - 1 is <<SeedLimb - 1, SeedLimb - 1>> and the
\* integer after it is <<SeedLimb, 0>>.
SeedLimb == 65536

\* the seed n, for 0 <= n < SeedLimb * 32768
Seed(n) == <<n \div SeedLimb, n % SeedLimb>>

\* sd + k, for a small k >= 0
SeedPlus(sd, k) ==
    <<sd[1] + (sd[2] + k) \div SeedLimb, (sd[2] + k) % SeedLimb>>

\* no seed: a call other than generate, a frame not begun
NoSeed == <<-1, 0>>

\* the seeds the seed field of a request can carry: 0 .. 2**32 - 1
InUint32(sd) == sd[1] \in 0 .. (SeedLimb - 1) /\ sd[2] \in 0 .. (SeedLimb - 1)

\* keyword arguments of a call that the model follows
Kw(sd, prompts, weights, steps) ==
    [seed |-> sd, prompts |-> prompts, weights |-> weights, steps |-> steps]

NoKw == Kw(NoSeed, <<>>, <<>>, 0)

CallKw(api, n, imgs, m, kw) ==
    [api |-> api, n |-> n, imgs |-> imgs, m |-> m, kw |-> kw]

Call(api, n, imgs, m) == CallKw(api, n, imgs, m, NoKw)

----------------------------------------------------------------------------
(* Animator *)

\* round() of a float counted in quarters: to the nearest integer, ties to even
PyRound(q) ==
    LET fl == q \div 4
        r == q % 4
    IN  IF r < 2 THEN fl
        ELSE IF r > 2 THEN fl + 1
        ELSE IF fl % 2 = 0 THEN fl ELSE fl + 1

\* int() of a float counted in quarters: truncation toward zero
PyInt(q) == IF q >= 0 THEN q \div 4 ELSE -((-q) \div 4)

\* render: diffusion_cadence of a frame from its series value
EffectiveCadence(q) == Max(1, PyInt(q))

IsDiffusionFrameNoOfs(f, ofs, cadence) == f % cadence = 0

\* render: whether the frame runs diffusion
IsDiffusionFrame(f, ofs, cadence) == (f - ofs) % cadence = 0

\* make_xform_2dm / the world_view of transform_3d for frame f
FrameXform(f) ==
    IF frame_args.motion_series[f + 1] = 0 THEN identity ELSE <<f + 1>>

AccumulateXformsOnRight(xform, xforms) ==
    [i \in 1 .. Len(xforms) |-> multiply(xforms[i], xform)]

\* transform_2d, transform_3d: apply xform to prior frames running xforms
AccumulateXforms(xform, xforms) ==
    [i \in 1 .. Len(xforms) |-> multiply(xform, xforms[i])]

\* transform_2d: the no-op test on the frame's parameters
IsNeutral2d(f) == frame_args.motion_series[f + 1] = 0

\* number of Api.transform calls the transform step of frame f makes
TransformCalls(f) ==
    IF Len(prior_frames) = 0 THEN 0
    ELSE IF args.animation_mode = "2D" /\ IsNeutral2d(f) THEN 0
    ELSE IF args.accumulate_xforms THEN Len(prior_diffused)
    ELSE 1

\* name of the warp operation the transform step requests
WarpOp ==
    IF args.animation_mode = "2D" THEN "warp2d" ELSE "resample"

\* to_3x3 of a 4x4 transform: its 2D part, marked by a leading 0
to_3x3(m) == <<0>> \o m

\* matrix.projection_fov of the fov of frame f
Projection(f) == <<-(f + 1)>>

\* the matrix of the warp of one slot: to_3x3(prior_xforms[i]) in 2D, wvp in 3D
WarpMatrix(f, xform) ==
    IF args.animation_mode = "2D" THEN to_3x3(xform)
    ELSE multiply(Projection(f), xform)

WarpSourcesFromFrames(frames, diffused) == frames

\* the images the accumulating transform step warps
WarpSources(frames, diffused) == diffused

\* transform_2d / transform_3d of frame f, of which the first `done` calls
\* to Api.transform return and the next one, if any, raises
TransformStep(f, done) ==
    LET n == TransformCalls(f)
        xform == FrameXform(f)
    IN  IF n = 0
        THEN [frames |-> prior_frames, xforms |-> prior_xforms,
              calls |-> <<>>, ok |-> TRUE]
        ELSE IF args.accumulate_xforms
        THEN LET xs == AccumulateXforms(xform, prior_xforms)
                 src == WarpSources(prior_frames, prior_diffused)
                 issued == IF done < n THEN done + 1 ELSE n
             IN  [frames |-> [i \in 1 .. Len(prior_frames) |->
                                IF i <= done
                                THEN ApiTransformImage(WarpOp, f, src[i],
                                                       WarpMatrix(f, xs[i]))
                                ELSE prior_frames[i]],
                  xforms |-> xs,
                  calls  |-> [i \in 1 .. issued |->
                                Call("transform", <<f>>, <<src[i]>>,
                                     WarpMatrix(f, xs[i]))],
                  ok     |-> done >= n]
        ELSE [frames |-> IF done >= 1
                         THEN ApiTransform(WarpOp, f, prior_frames, xform)
                         ELSE prior_frames,
              xforms |-> prior_xforms,
              calls  |-> <<Call("transform", <<f>>, prior_frames, xform)>>,
              ok     |-> done >= 1]

AdvanceFramesKeepOldest(frames, image) ==
    LET w == IF Len(frames) = 0 THEN <<image, image>> ELSE frames
    IN  <<w[1], image>>

AdvanceFramesNoFill(frames, image) ==
    IF Len(frames) = 0 THEN <<image>> ELSE <<frames[2], image>>

AdvanceFramesNoDrop(frames, image) ==
    LET w == IF Len(frames) = 0 THEN <<image, image>> ELSE frames
    IN  Append(w, image)

\* render: prior_frames / prior_diffused after a diffusion of `image`
AdvanceFrames(frames, image) ==
    LET w == IF Len(frames) = 0 THEN <<image, image>> ELSE frames
    IN  <<w[2], image>>

AdvanceXformsResetBoth(frames, xforms) == <<identity, identity>>

\* render: prior_xforms after a diffusion
AdvanceXforms(frames, xforms) ==
    LET x == IF Len(frames) = 0 THEN <<identity, identity>> ELSE xforms
    IN  <<x[2], identity>>

NextCadenceOfsEveryFrame(f, ofs, diffused) == f

\* render: diffusion_cadence_ofs after the cadence step of frame f
NextCadenceOfs(f, ofs, diffused) == IF diffused THEN f ELSE ofs

DiffusionOutFrameNewest(cadence, image, frames) == image

\* render: the frame written for a diffusion frame
DiffusionOutFrame(cadence, image, frames) ==
    IF cadence = 1 THEN image ELSE frames[1]

TweenNumFromZero(f, ofs, cadence) == (f - ofs - 1) % cadence

\* render: the frames handed to Api.interpolate
TweenFrames(frames) == <<frames[1], frames[2]>>

\* render: prior_frames[0] and prior_frames[1] of a window that lacks them
\* raise IndexError before interpolate is called
TweenIndexError(frames) == Len(frames) < 2

\* render: the tween ratio, numerator over diffusion_cadence
TweenNum(f, ofs, cadence) == (f - ofs) % cadence

----------------------------------------------------------------------------
(* Prompts *)

\* weights are fractions <<numerator, denominator>> with denominator > 0
One == <<1, 1>>

OneMinusDropped(w) == w

\* 1.0 - w
OneMinus(w) == <<w[2] - w[1], w[2]>>

NegAbs(w) == <<IF w[1] >= 0 THEN -w[1] ELSE w[1], w[2]>>

\* the prompt text of the i-th entry of the schedule
EntryPrompt(i) == [kind |-> "entry", n |-> i]

EmptyPrompt == [kind |-> "empty", n |-> 0]

NegativeText == [kind |-> "negative", n |-> 0]

\* len() of a prompt text
PromptLen(p) == IF p.kind = "empty" THEN 0 ELSE 1

\* the Python dict of a schedule written entry by entry: of entries with
\* one key the last one stays
DictOf(entries) ==
    [k \in {entries[i] : i \in DOMAIN entries} |->
        EntryPrompt(CHOOSE i \in DOMAIN entries :
                        /\ entries[i] = k
                        /\ \A j \in DOMAIN entries : entries[j] = k => j <= i)]

RECURSIVE SortedList(_)
\* sorted(list(S))
SortedList(S) ==
    IF S = {} THEN <<>>
    ELSE LET m == CHOOSE x \in S : \A y \in S : x <= y
         IN  <<m>> \o SortedList(S \ {m})

\* setup_animation: the error the keyframe checks raise, "" for none
KeyframeError(keys) ==
    IF Len(keys) = 0 THEN "IndexError"
    ELSE IF keys[1] # 0 THEN "First keyframe must be 0"
    ELSE IF Len(keys) # Cardinality({keys[i] : i \in DOMAIN keys})
    THEN "Duplicate keyframes are not allowed!"
    ELSE ""

bisect_left(keys, x) == Cardinality({i \in DOMAIN keys : keys[i] < x})

\* bisect.bisect_right on a sorted list
bisect_right(keys, x) == Cardinality({i \in DOMAIN keys : keys[i] <= x})

\* list[i] of Python: from 0, a negative index counts from the end
PyIndex(list, i) == IF i >= 0 THEN list[i + 1] ELSE list[Len(list) + i + 1]

\* get_animation_prompts_weights
GetAnimationPromptsWeights(f) ==
    LET keys == key_frame_values
        idx == bisect_right(keys, f)
        prev == idx - 1
        next == idx
        last == Len(keys) - 1
    IN  IF ~args.interpolate_prompts
        THEN [prompts |-> <<animation_prompts[
                                PyIndex(keys, IF last <= prev THEN last ELSE prev)]>>,
              weights |-> <<One>>]
        ELSE IF next = Len(keys)
        THEN [prompts |-> <<animation_prompts[PyIndex(keys, -1)]>>,
              weights |-> <<One>>]
        ELSE LET tween == <<f - PyIndex(keys, prev),
                            PyIndex(keys, next) - PyIndex(keys, prev)>>
             IN  [prompts |-> <<animation_prompts[PyIndex(keys, prev)],
                                animation_prompts[PyIndex(keys, next)]>>,
                  weights |-> <<OneMinus(tween), tween>>]

AppendNegativeAlways(g, text, weight) ==
    [prompts |-> Append(g.prompts, text),
     weights |-> Append(g.weights, NegAbs(weight))]

\* render: the negative prompt added to the prompts of a frame
AppendNegative(g, text, weight) ==
    IF PromptLen(text) # 0 /\ weight[1] # 0
    THEN [prompts |-> Append(g.prompts, text),
          weights |-> Append(g.weights, NegAbs(weight))]
    ELSE g

\* render: prompts and weights of frame f
FramePrompts(f) ==
    AppendNegative(GetAnimationPromptsWeights(f), negative_prompt,
                   negative_prompt_weight)

----------------------------------------------------------------------------
(* Steps, strength, init image and mask *)

\* values of steps_series, in quarters: 10.25, 30.0
StepsValues == {41, 120}

\* values of strength_series, in quarters: -0.25, 0.0, 0.75, 1.5
StrengthValues == {-1, 0, 3, 6}

\* values of noise_series, in quarters: 0.0, 0.25
NoiseValues == {0, 1}

\* render: strength of a frame, in quarters
Strength(q) == Max(0, q)

AdjustedStepsNoFloor(steps_q, strength_q, adj) ==
    IF adj THEN PyInt(PyInt(steps_q) * (4 - Strength(strength_q)))
    ELSE PyInt(steps_q)

\* render: adjusted_steps of a frame from its steps and strength values
AdjustedSteps(steps_q, strength_q, adj) ==
    LET steps == PyInt(steps_q)
    IN  IF adj THEN PyInt(Max(5 * 4, steps * (4 - Strength(strength_q))))
        ELSE steps

HasInitIgnoresStrength(frames, strength) == Len(frames) > 0

\* render: whether prior_frames[-1] is taken as the init image
HasInit(frames, strength) == Len(frames) > 0 /\ strength > 0

\* prepare_init: number of Api.transform calls it makes for frame f
PrepareCalls(f, has_init) ==
    IF has_init /\ frame_args.noise_series[f + 1] > 0 THEN 1 ELSE 0

\* prepare_init: the init image after its operations
PrepareInit(f, image, has_init) ==
    IF PrepareCalls(f, has_init) = 1
    THEN ApiTransformImage("add_noise", f, image, identity)
    ELSE image

\* one pixel of a mask image as cv2 loads it, -1 when there is no mask
NoMask == [loaded |-> -1, px |-> -1]

\* a pixel of the resized grayscale mask: 8 bits
MaskPixels == 0 .. 255

SetMaskNeverInverts(m, invert) == m

\* set_mask on one pixel of gray value m: uint8 arithmetic
SetMaskPixel(m, invert) == IF ~invert THEN (255 - m) % 256 ELSE m

\* utils.image_mix(a, b, mask): the pixel-wise blend of a and b
ImageMix(a, b) ==
    IF a = b THEN a ELSE Img("image_mix", <<>>, <<a, b>>, identity)

\* render: apply mask to transformed prior frames
MaskMix(frames, stashed) ==
    IF mask.px = -1 THEN frames
    ELSE [i \in 1 .. Len(frames) |-> ImageMix(frames[i], stashed[i])]

\* Api.generate raises ValueError for a mask without an init image
GenerateRejects(init) == mask.px # -1 /\ Len(init) = 0

----------------------------------------------------------------------------
(* Animator: construction and render *)

NoLocals ==
    [frame_idx |-> -1, diffusion_cadence |-> 0, ofs |-> 0, state |-> "NONE",
     tween |-> <<0, 1>>, image |-> NoImage, out_frame |-> NoImage,
     w_frames |-> <<>>, w_diffused |-> <<>>, w_xforms |-> <<>>,
     s_frames |-> <<>>, s_diffused |-> <<>>, s_xforms |-> <<>>,
     t_frames |-> <<>>, strength |-> 0, adjusted_steps |-> 0,
     seed |-> NoSeed, prompts |-> <<>>, weights |-> <<>>,
     key_prompts |-> <<>>, key_weights |-> <<>>,
     returned |-> 0, raised |-> FALSE]

\* setup_animation: the window after load_init_image and the resume block
SetupFrames(res, n) ==
    IF res /\ n > 2 THEN <<FrameFile(n - 2), FrameFile(n - 1)>>
    ELSE IF args.init_image THEN <<InitImage, InitImage>>
    ELSE <<>>

\* setup_animation: initialize accumulated transforms
SetupXforms == <<identity, identity>>

SetupStartOneLess(res, n) == IF res /\ n > 0 THEN n - 1 ELSE 0

\* setup_animation: start_frame_idx, n being the number of frame files
SetupStart(res, n) == IF res THEN n ELSE 0

SetupOfsZero(res, n) == 0

\* setup_animation: diffusion_cadence_ofs, with start_frame_idx = n on resume
SetupOfs(res, n) == IF res THEN n ELSE 0

LoopPcStopsEarly(f) == IF f + 1 < args.max_frames THEN "loop" ELSE "done"

\* render: the generator's position before the iteration of frame f
LoopPc(f) == IF f < args.max_frames THEN "loop" ELSE "done"

NextFrameIdxSkipping(f) == f + 2

\* render: the loop's next index
NextFrameIdx(f) == f + 1

RaisedPcSwallowed(f) == LoopPc(f)

\* render has no handler: an exception of the iteration of frame f ends it
RaisedPc(f) == "failed"

NextSeedAlways(sd) == SeedPlus(sd, 1)

\* render: the seed after a frame
NextSeed(sd) == IF args.locked_seed THEN sd ELSE SeedPlus(sd, 1)

(* The values the settings are drawn from *)
SeedValues == {Seed(1), Seed(7)}

\* args.seed as the caller gave it: -1 and 0 ask for a random seed
GivenSeeds == {NoSeed, Seed(0), Seed(5)}

\* random.randint(0, 2**32 - 1): both ends and their neighbours
RandomSeeds ==
    {Seed(0), Seed(1), <<SeedLimb - 1, SeedLimb - 2>>, <<SeedLimb - 1, SeedLimb - 1>>}

\* setup_animation: a seed <= 0 is replaced by a random one
SetupSeed(given, drawn) ==
    IF given[1] < 0 THEN drawn
    ELSE IF given = Seed(0) THEN drawn
    ELSE given

NegativeWeights == {<<-1, 1>>, <<0, 1>>, <<1, 2>>}

ScheduleKeys == 0 .. MaxKey

\* the schedules a caller can write: up to MaxEntries entries
Schedules ==
    UNION {[1 .. n -> ScheduleKeys] : n \in 0 .. MaxEntries}

\* the value a keyframe curve gives at a keyframe, in quarters
CurveValues == {0, 6}

\* the well-formed curve strings: key_frame_parse reads such a string as the
\* pairs <<frame, value>> it names, the frames strictly increasing
Curves ==
    {c \in UNION {[1 .. n -> (0 .. MaxCurveKey) \X CurveValues] :
                     n \in 1 .. MaxKeyframes} :
        \A i \in 1 .. (Len(c) - 1) : c[i][1] < c[i + 1][1]}

key_frame_parse(curve) == curve

\* the keyframe that brackets frame f from below, and the one from above
CurveLo(curve, f) ==
    CHOOSE i \in 1 .. (Len(curve) - 1) : curve[i][1] <= f /\ f < curve[i + 1][1]

\* the value of frame f, an exact fraction: the boundary keyframe's value
\* outside the keyframes, the linear interpolation between them
CurveValueAt(curve, f) ==
    IF f <= curve[1][1] THEN <<curve[1][2], 1>>
    ELSE IF f >= curve[Len(curve)][1] THEN <<curve[Len(curve)][2], 1>>
    ELSE LET i == CurveLo(curve, f)
             d == curve[i + 1][1] - curve[i][1]
         IN  <<curve[i][2] * d + (curve[i + 1][2] - curve[i][2]) * (f - curve[i][1]),
               d>>

key_frame_inbetweens(key_frames, max_frames) ==
    [k \in 1 .. max_frames |-> CurveValueAt(key_frames, k - 1)]

curve_to_series_from_one(curve, max_frames) ==
    [k \in 1 .. max_frames |-> CurveValueAt(key_frame_parse(curve), k)]

\* setup_animation: curve_to_series
curve_to_series(curve, max_frames) ==
    key_frame_inbetweens(key_frame_parse(curve), max_frames)

\* the curve settings followed here
CurveNames == {"angle", "strength_curve"}

\* setup_animation: the series expanded from the curve settings
SetupSeries(a) ==
    [angle_series |-> curve_to_series(a.curves["angle"], a.max_frames),
     strength_series |-> curve_to_series(a.curves["strength_curve"], a.max_frames)]

\* python values and JSON values carry their type
PyStr(v) == [type |-> "str", v |-> v]

PyIntValue(v) == [type |-> "int", v |-> v]

PyFloat(v) == [type |-> "float", v |-> v]

\* json.dump of one value: a str becomes a string, an int a number written
\* without a fraction, a float a number written with one
JsonDump(py) ==
    IF py.type = "str" THEN [json |-> "string", v |-> py.v, fraction |-> FALSE]
    ELSE [json |-> "number", v |-> py.v, fraction |-> py.type = "float"]

\* json.loads of one value
JsonLoad(js) ==
    IF js.json = "string" THEN PyStr(js.v)
    ELSE IF js.fraction THEN PyFloat(js.v)
    ELSE PyIntValue(js.v)

args2dictWithoutMotion(a) ==
    [k \in {"max_frames", "strength_curve"} |->
        IF k = "max_frames" THEN PyIntValue(a.max_frames) ELSE PyStr(a.curves[k])]

\* args2dict: the parameters by name
args2dict(a) ==
    [k \in {"max_frames"} \cup CurveNames |->
        IF k = "max_frames" THEN PyIntValue(a.max_frames) ELSE PyStr(a.curves[k])]

\* save_settings: the document written
SaveDict(a) ==
    LET save_dict == args2dict(a)
    IN  [k \in DOMAIN save_dict \cup {"negative_prompt_weight"} |->
            IF k = "negative_prompt_weight"
            THEN JsonDump(PyFloat(negative_prompt_weight))
            ELSE JsonDump(save_dict[k])]

\* args_reset_to_defaults: angle "0:(1)" and strength_curve "0:(0.65)", the
\* latter standing as 3 quarters, the nearest value counted here
DefaultCurves ==
    [k \in CurveNames |-> IF k = "angle" THEN <<<<0, 4>>>> ELSE <<<<0, 3>>>>]

\* args_reset_to_defaults: max_frames
DefaultMaxFrames == 60

\* args_to_controls after args_reset_to_defaults: the parameters the
\* document names are set from it, the others keep their defaults
LoadedArgs(a, doc) ==
    LET data == [k \in DOMAIN doc |-> JsonLoad(doc[k])]
    IN  [a EXCEPT !.max_frames = IF "max_frames" \in DOMAIN data
                                 THEN data["max_frames"].v
                                 ELSE DefaultMaxFrames,
                  !.curves = [k \in CurveNames |->
                                 IF k \in DOMAIN data THEN data[k].v
                                 ELSE DefaultCurves[k]]]

\* no request is being run
NoRequest == [pc |-> "none"]

\* Api.__init__: _retry_schedule_offset, in tenths
RetryScheduleOffset == 1

\* schedule.start of a request, in tenths; -1 when the request has none
ScheduleStarts == {-1, 0, 5, 10}

\* what one send of the request meets: results, an RpcError, or results that
\* a classifier obfuscated
Responses == {"ok", "rpc", "obfuscated"}

LastAttemptOneEarly(attempt, max_retries) == attempt + 1 >= max_retries

\* _run_request: `attempt == self._max_retries`
LastAttempt(attempt, max_retries) == attempt = max_retries

RetryDelayLinear(retry_delay, attempt) == retry_delay * (attempt + 1)

\* _run_request: the argument of time.sleep
RetryDelay(retry_delay, attempt) == retry_delay * 2 ^ attempt

\* _adjust_request_for_retry: request.image.seed
AdjustSeeds(seeds) == [i \in 1 .. Len(seeds) |-> SeedPlus(seeds[i], 1)]

AdjustStartAlways(start, attempt) ==
    IF start # -1 THEN Max(0, Min(10, start + RetryScheduleOffset)) ELSE start

\* _adjust_request_for_retry: schedule.start
AdjustStart(start, attempt) ==
    IF attempt > 0 /\ start # -1
    THEN Max(0, Min(10, start + RetryScheduleOffset))
    ELSE start

\* _run_request about to send `request` for the first time
RequestStart(api, request) ==
    [pc |-> "attempt", attempt |-> 0, api |-> api, request |-> request,
     given |-> request, history |-> <<>>, delays |-> <<>>, error |-> "none"]

\* no settings document written
NoSaved == [doc |-> <<>>, args |-> <<>>, frame_args |-> <<>>]

\* the Animator is driven by a caller other than animation_ui
NoUi == [pc |-> "none", frame_idx |-> 0, seen |-> 0, at_stop |-> -1,
         button |-> TRUE, button_stop |-> FALSE,
         error |-> "", video |-> FALSE, recorded |-> FALSE]

\* animation_ui.render after its initial yield, remove_frames_from_path and
\* `frame_idx, error = 0, None`: Render hidden, Stop shown.  seen counts the
\* frames the for loop has received; at_stop is the number of frame files
\* when stop() set the flag.
UiRendering == [NoUi EXCEPT !.pc = "rendering", !.button = FALSE,
                            !.button_stop = TRUE]

UiNeverBreaks(flag) == FALSE

\* animation_ui.render: `if interrupt: break`
UiBreaks(flag) == flag

\* animation_ui.render: `if frame_idx:`
UiHasFrames(u, files) == u.frame_idx # 0

\* animation_ui.render after its loop: the video and last_project_settings_path
\* under `if frame_idx:`, then the final yield
UiFinal(u, err, files) ==
    [u EXCEPT !.pc = "idle",
              !.button = TRUE,
              !.button_stop = FALSE,
              !.error = err,
              !.video = UiHasFrames(u, files),
              !.recorded = UiHasFrames(u, files)]

\* The Animator after __init__ on an empty out_dir, the settings given;
\* `ready` is the position of a constructed Animator.
Constructed(ready) ==
    LET err == KeyframeError(SortedList(DOMAIN DictOf(prompt_entries)))
    IN  /\ animation_prompts = DictOf(prompt_entries)
        /\ key_frame_values = SortedList(DOMAIN DictOf(prompt_entries))
        /\ resume = FALSE
        /\ start_frame_idx = SetupStart(FALSE, 0)
        /\ diffusion_cadence_ofs = SetupOfs(FALSE, 0)
        /\ prior_frames = IF err = "" THEN SetupFrames(FALSE, 0) ELSE <<>>
        /\ prior_diffused = IF err = "" THEN SetupFrames(FALSE, 0) ELSE <<>>
        /\ prior_xforms = IF err = "" THEN SetupXforms ELSE <<>>
        /\ pc = IF err = "" THEN ready ELSE "setup_error"
        /\ out_dir = <<>>
        /\ depth_maps = <<>>
        /\ yielded = <<>>
        /\ loc = NoLocals
        /\ calls = <<>>
        /\ seed = args.seed
        /\ mask = IF args.mask_path = -1 THEN NoMask
                  ELSE [loaded |-> args.mask_path,
                        px |-> SetMaskPixel(args.mask_path, args.mask_invert)]
        /\ saved = NoSaved

Init ==
    /\ args \in [animation_mode : AnimationModes,
                 max_frames : {MaxFrames},
                 accumulate_xforms : BOOLEAN,
                 init_image : BOOLEAN,
                 interpolate_prompts : {FALSE},
                 locked_seed : {FALSE},
                 save_depth_maps : {FALSE},
                 seed : {Seed(1)},
                 steps_strength_adj : {FALSE},
                 mask_path : {-1},
                 mask_invert : {FALSE}]
    /\ frame_args \in [diffusion_cadence_series : [1 .. MaxFrames -> CadenceValues],
                       motion_series : [1 .. MaxFrames -> MotionValues],
                       steps_series : {[i \in 1 .. MaxFrames |-> 120]},
                       strength_series : {[i \in 1 .. MaxFrames |-> 3]},
                       noise_series : {[i \in 1 .. MaxFrames |-> 0]}]
    /\ interrupt = FALSE
    /\ ui = NoUi
    /\ prompt_entries = <<0>>
    /\ negative_prompt = EmptyPrompt
    /\ negative_prompt_weight = <<-1, 1>>
    /\ frame_idx = 0
    /\ rq = NoRequest
    /\ Constructed(LoopPc(0))

\* the settings of a run: seed, depth maps, every cadence series
InitRun ==
    /\ args \in [animation_mode : AnimationModes,
                 max_frames : {MaxFrames},
                 accumulate_xforms : {TRUE},
                 init_image : BOOLEAN,
                 interpolate_prompts : {FALSE},
                 locked_seed : BOOLEAN,
                 save_depth_maps : BOOLEAN,
                 seed : SeedValues,
                 steps_strength_adj : {FALSE},
                 mask_path : {-1},
                 mask_invert : {FALSE}]
    /\ frame_args \in [diffusion_cadence_series : [1 .. MaxFrames -> CadenceValues],
                       motion_series : [1 .. MaxFrames -> {1}],
                       steps_series : {[i \in 1 .. MaxFrames |-> 120]},
                       strength_series : {[i \in 1 .. MaxFrames |-> 3]},
                       noise_series : {[i \in 1 .. MaxFrames |-> 0]}]
    /\ interrupt = FALSE
    /\ ui = NoUi
    /\ prompt_entries = <<0>>
    /\ negative_prompt = EmptyPrompt
    /\ negative_prompt_weight = <<-1, 1>>
    /\ frame_idx = 0
    /\ rq = NoRequest
    /\ Constructed(LoopPc(0))

\* the settings of the synthesis request: steps, strength, noise
InitSteps ==
    /\ args \in [animation_mode : {"2D"},
                 max_frames : {MaxFrames},
                 accumulate_xforms : {FALSE},
                 init_image : BOOLEAN,
                 interpolate_prompts : {FALSE},
                 locked_seed : {FALSE},
                 save_depth_maps : {FALSE},
                 seed : {Seed(1)},
                 steps_strength_adj : BOOLEAN,
                 mask_path : {-1},
                 mask_invert : {FALSE}]
    /\ frame_args \in [diffusion_cadence_series : {[i \in 1 .. MaxFrames |-> 4]},
                       motion_series : {[i \in 1 .. MaxFrames |-> 0]},
                       steps_series : {[i \in 1 .. MaxFrames |-> v] : v \in StepsValues},
                       strength_series : [1 .. MaxFrames -> StrengthValues],
                       noise_series : {[i \in 1 .. MaxFrames |-> v] : v \in NoiseValues}]
    /\ prompt_entries = <<0>>
    /\ negative_prompt = EmptyPrompt
    /\ negative_prompt_weight = <<-1, 1>>
    /\ interrupt = FALSE
    /\ ui = NoUi
    /\ frame_idx = 0
    /\ rq = NoRequest
    /\ Constructed(LoopPc(0))

\* 2D runs with and without a mask
InitMask ==
    /\ args \in [animation_mode : {"2D"},
                 max_frames : {MaxFrames},
                 accumulate_xforms : BOOLEAN,
                 init_image : BOOLEAN,
                 interpolate_prompts : {FALSE},
                 locked_seed : {FALSE},
                 save_depth_maps : {FALSE},
                 seed : {Seed(1)},
                 steps_strength_adj : {FALSE},
                 mask_path : {-1, 64},
                 mask_invert : {FALSE}]
    /\ frame_args \in [diffusion_cadence_series :
                           {[i \in 1 .. MaxFrames |-> v] : v \in {4, 8}},
                       motion_series : [1 .. MaxFrames -> MotionValues],
                       steps_series : {[i \in 1 .. MaxFrames |-> 120]},
                       strength_series : {[i \in 1 .. MaxFrames |-> 3]},
                       noise_series : {[i \in 1 .. MaxFrames |-> 0]}]
    /\ prompt_entries = <<0>>
    /\ negative_prompt = EmptyPrompt
    /\ negative_prompt_weight = <<-1, 1>>
    /\ interrupt = FALSE
    /\ ui = NoUi
    /\ frame_idx = 0
    /\ rq = NoRequest
    /\ Constructed(LoopPc(0))

\* the seed setup_animation left in args, given or drawn at random
InitSeed ==
    /\ args \in [animation_mode : {"2D"},
                 max_frames : {MaxFrames},
                 accumulate_xforms : {TRUE},
                 init_image : {FALSE},
                 interpolate_prompts : {FALSE},
                 locked_seed : BOOLEAN,
                 save_depth_maps : {FALSE},
                 seed : {SetupSeed(g, d) : g \in GivenSeeds, d \in RandomSeeds},
                 steps_strength_adj : {FALSE},
                 mask_path : {-1},
                 mask_invert : {FALSE}]
    /\ frame_args \in [diffusion_cadence_series : [1 .. MaxFrames -> {4, 8}],
                       motion_series : {[i \in 1 .. MaxFrames |-> 1]},
                       steps_series : {[i \in 1 .. MaxFrames |-> 120]},
                       strength_series : {[i \in 1 .. MaxFrames |-> 3]},
                       noise_series : {[i \in 1 .. MaxFrames |-> 0]}]
    /\ prompt_entries = <<0>>
    /\ negative_prompt = EmptyPrompt
    /\ negative_prompt_weight = <<-1, 1>>
    /\ interrupt = FALSE
    /\ ui = NoUi
    /\ frame_idx = 0
    /\ rq = NoRequest
    /\ Constructed(LoopPc(0))

\* a video mask whose first frame is black or white, inverted or not
InitSetMask ==
    /\ args \in [animation_mode : {"2D"},
                 max_frames : {MaxFrames},
                 accumulate_xforms : {TRUE},
                 init_image : {TRUE},
                 interpolate_prompts : {FALSE},
                 locked_seed : {FALSE},
                 save_depth_maps : {FALSE},
                 seed : {Seed(1)},
                 steps_strength_adj : {FALSE},
                 mask_path : {0, 255},
                 mask_invert : BOOLEAN]
    /\ frame_args = [diffusion_cadence_series |-> [i \in 1 .. MaxFrames |-> 4],
                     motion_series |-> [i \in 1 .. MaxFrames |-> 0],
                     steps_series |-> [i \in 1 .. MaxFrames |-> 120],
                     strength_series |-> [i \in 1 .. MaxFrames |-> 3],
                     noise_series |-> [i \in 1 .. MaxFrames |-> 0]]
    /\ prompt_entries = <<0>>
    /\ negative_prompt = EmptyPrompt
    /\ negative_prompt_weight = <<-1, 1>>
    /\ interrupt = FALSE
    /\ ui = NoUi
    /\ frame_idx = 0
    /\ rq = NoRequest
    /\ Constructed("mask")

\* the curve settings and max_frames of an Animator that saves its settings
InitCurves ==
    /\ args \in [animation_mode : {"2D"},
                 max_frames : 1 .. MaxCurveFrames,
                 accumulate_xforms : {TRUE},
                 init_image : {FALSE},
                 interpolate_prompts : {FALSE},
                 locked_seed : {FALSE},
                 save_depth_maps : {FALSE},
                 seed : {Seed(1)},
                 steps_strength_adj : {FALSE},
                 mask_path : {-1},
                 mask_invert : {FALSE},
                 curves : {[k \in CurveNames |->
                               IF k = "angle" THEN c ELSE d] :
                           c \in Curves,
                           d \in {<<<<0, 3>>>>, <<<<0, 0>>, <<2, 6>>>>}}]
    /\ frame_args = SetupSeries(args)
    /\ prompt_entries = <<0>>
    /\ negative_prompt = EmptyPrompt
    /\ negative_prompt_weight = <<-1, 1>>
    /\ interrupt = FALSE
    /\ ui = NoUi
    /\ frame_idx = 0
    /\ rq = NoRequest
    /\ Constructed("curves")

\* animation_ui.render has built its Animator (resume=False) on the emptied
\* out_dir and is about to iterate animator.render()
InitUi ==
    /\ args \in [animation_mode : AnimationModes,
                 max_frames : {MaxFrames},
                 accumulate_xforms : {TRUE},
                 init_image : {FALSE},
                 interpolate_prompts : {FALSE},
                 locked_seed : {FALSE},
                 save_depth_maps : BOOLEAN,
                 seed : {Seed(1)},
                 steps_strength_adj : {FALSE},
                 mask_path : {-1},
                 mask_invert : {FALSE}]
    /\ frame_args \in [diffusion_cadence_series : [1 .. MaxFrames -> {4, 8}],
                       motion_series : {[i \in 1 .. MaxFrames |-> 1]},
                       steps_series : {[i \in 1 .. MaxFrames |-> 120]},
                       strength_series : {[i \in 1 .. MaxFrames |-> 3]},
                       noise_series : {[i \in 1 .. MaxFrames |-> 0]}]
    /\ prompt_entries = <<0>>
    /\ negative_prompt = EmptyPrompt
    /\ negative_prompt_weight = <<-1, 1>>
    /\ interrupt = FALSE
    /\ ui = UiRendering
    /\ frame_idx = 0
    /\ rq = NoRequest
    /\ Constructed(LoopPc(0))

\* an Api with its retry settings and a request handed to _run_request
InitRequest ==
    /\ args \in [animation_mode : {"2D"},
                 max_frames : {MaxFrames},
                 accumulate_xforms : {TRUE},
                 init_image : {FALSE},
                 interpolate_prompts : {FALSE},
                 locked_seed : {FALSE},
                 save_depth_maps : {FALSE},
                 seed : {Seed(1)},
                 steps_strength_adj : {FALSE},
                 mask_path : {-1},
                 mask_invert : {FALSE}]
    /\ frame_args = [diffusion_cadence_series |-> [i \in 1 .. MaxFrames |-> 4],
                     motion_series |-> [i \in 1 .. MaxFrames |-> 0],
                     steps_series |-> [i \in 1 .. MaxFrames |-> 120],
                     strength_series |-> [i \in 1 .. MaxFrames |-> 3],
                     noise_series |-> [i \in 1 .. MaxFrames |-> 0]]
    /\ prompt_entries = <<0>>
    /\ negative_prompt = EmptyPrompt
    /\ negative_prompt_weight = <<-1, 1>>
    /\ interrupt = FALSE
    /\ ui = NoUi
    /\ frame_idx = 0
    /\ \E api \in [max_retries : 0 .. MaxRetries,
                     retry_delay : {1, 3},
                     retry_obfuscation : BOOLEAN],
          request \in [has_image : BOOLEAN,
                       seeds : {<<Seed(5)>>, <<Seed(5), <<0, SeedLimb - 1>>>>},
                       start : ScheduleStarts] :
          rq = RequestStart(api, request)
    /\ Constructed("request")

\* the schedules, the negative prompts and the frame whose prompts are asked
InitPrompts ==
    /\ args \in [animation_mode : {"2D"},
                 max_frames : {MaxPromptFrame + 1},
                 accumulate_xforms : {FALSE},
                 init_image : {FALSE},
                 interpolate_prompts : BOOLEAN,
                 locked_seed : {FALSE},
                 save_depth_maps : {FALSE},
                 seed : {Seed(1)},
                 steps_strength_adj : {FALSE},
                 mask_path : {-1},
                 mask_invert : {FALSE}]
    /\ frame_args = [diffusion_cadence_series |-> [i \in 1 .. MaxPromptFrame + 1 |-> 4],
                     motion_series |-> [i \in 1 .. MaxPromptFrame + 1 |-> 0],
                     steps_series |-> [i \in 1 .. MaxPromptFrame + 1 |-> 120],
                     strength_series |-> [i \in 1 .. MaxPromptFrame + 1 |-> 3],
                     noise_series |-> [i \in 1 .. MaxPromptFrame + 1 |-> 0]]
    /\ interrupt = FALSE
    /\ ui = NoUi
    /\ prompt_entries \in Schedules
    /\ negative_prompt \in {EmptyPrompt, NegativeText}
    /\ negative_prompt_weight \in NegativeWeights
    /\ rq = NoRequest
    /\ Constructed("prompts")
    /\ frame_idx \in IF pc = "prompts" THEN 0 .. MaxPromptFrame ELSE {0}

\* One iteration of render's loop up to its yield; `done` is the number of
\* Api calls of the iteration that return before one raises (-1: all return).
RenderFrame ==
    /\ pc = "loop"
    /\ \E done \in -1 .. 3 :
        LET f == frame_idx
            cadence == EffectiveCadence(frame_args.diffusion_cadence_series[f + 1])
            strength == Strength(frame_args.strength_series[f + 1])
            adjusted_steps == AdjustedSteps(frame_args.steps_series[f + 1],
                                            frame_args.strength_series[f + 1],
                                            args.steps_strength_adj)
            ofs == diffusion_cadence_ofs
            key == GetAnimationPromptsWeights(f)
            pw == FramePrompts(f)
            n == TransformCalls(f)
            t == TransformStep(f, IF done \in 0 .. n THEN done ELSE n)
            frames == IF t.ok THEN MaskMix(t.frames, prior_frames) ELSE t.frames
            diffuse == IsDiffusionFrame(f, ofs, cadence)
            has_init == diffuse /\ HasInit(frames, strength)
            index_error == ~diffuse /\ TweenIndexError(frames)
            p == PrepareCalls(f, has_init)
            init == IF has_init
                    THEN <<PrepareInit(f, frames[Len(frames)], has_init)>>
                    ELSE <<>>
            prepared == t.ok /\ done \notin 0 .. (n + p - 1)
            image == ApiGenerate(f, init)
            num == TweenNum(f, ofs, cadence)
            prepare == IF t.ok /\ p = 1
                       THEN <<Call("transform", <<f>>, <<frames[Len(frames)]>>,
                                   identity)>>
                       ELSE <<>>
            call == IF diffuse
                    THEN CallKw("generate", <<f>>, init, identity,
                                Kw(seed, pw.prompts, pw.weights, adjusted_steps))
                    ELSE Call("interpolate", <<num, cadence>>,
                              TweenFrames(frames), identity)
            entry == [NoLocals EXCEPT !.frame_idx = f,
                                      !.diffusion_cadence = cadence,
                                      !.ofs = ofs,
                                      !.seed = seed,
                                      !.strength = strength,
                                      !.adjusted_steps = adjusted_steps,
                                      !.key_prompts = key.prompts,
                                      !.key_weights = key.weights,
                                      !.prompts = pw.prompts,
                                      !.weights = pw.weights,
                                      !.s_frames = prior_frames,
                                      !.s_diffused = prior_diffused,
                                      !.s_xforms = prior_xforms,
                                      !.returned = IF done = -1 THEN n + p + 1
                                                   ELSE done,
                                      !.raised = done # -1]
            before == [entry EXCEPT !.t_frames = t.frames,
                                    !.w_frames = frames,
                                    !.w_diffused = prior_diffused,
                                    !.w_xforms = t.xforms]
            out_frame == IF diffuse
                         THEN DiffusionOutFrame(cadence, image,
                                                AdvanceFrames(frames, image))
                         ELSE ApiInterpolate(TweenFrames(frames), num, cadence)
        IN  /\ done <= n + p
            /\ (diffuse /\ GenerateRejects(init)) => done # -1
            /\ index_error => done # -1
            /\ prior_xforms' = IF diffuse /\ done = -1
                               THEN AdvanceXforms(frames, t.xforms)
                               ELSE t.xforms
            /\ prior_frames' = IF diffuse /\ done = -1
                               THEN AdvanceFrames(frames, image)
                               ELSE frames
            /\ prior_diffused' = IF diffuse /\ done = -1
                                 THEN AdvanceFrames(prior_diffused, image)
                                 ELSE prior_diffused
            /\ diffusion_cadence_ofs' = NextCadenceOfs(f, ofs, diffuse /\ done = -1)
            /\ calls' = IF ~t.ok THEN t.calls
                        ELSE IF ~prepared THEN t.calls \o prepare
                        ELSE IF index_error THEN t.calls \o prepare
                        ELSE Append(t.calls \o prepare, call)
            /\ loc' = IF ~t.ok THEN entry
                      ELSE IF ~prepared THEN before
                      ELSE IF diffuse
                      THEN [before EXCEPT
                              !.state = "SYNTHESIZE",
                              !.image = IF done = -1 THEN image ELSE NoImage,
                              !.out_frame = IF done = -1 THEN out_frame ELSE NoImage]
                      ELSE [before EXCEPT
                              !.state = "TWEEN",
                              !.tween = <<num, cadence>>,
                              !.out_frame = IF done = -1 THEN out_frame ELSE NoImage]
            /\ pc' = IF done = -1 THEN "yielded" ELSE RaisedPc(f)
            /\ out_dir' = IF done = -1
                          THEN [k \in DOMAIN out_dir \cup {f} |->
                                    IF k = f THEN out_frame ELSE out_dir[k]]
                          ELSE out_dir
            /\ yielded' = IF done = -1 THEN Append(yielded, f) ELSE yielded
    /\ UNCHANGED <<args, frame_args, start_frame_idx, frame_idx, seed,
                   depth_maps, resume, prompt_entries, animation_prompts,
                   key_frame_values, negative_prompt, negative_prompt_weight,
                   mask, saved, interrupt, ui, rq>>

\* render resumed after its yield: the depth map when asked for (a call that
\* may raise), the seed, then the loop test
RenderAdvance ==
    /\ pc = "yielded"
    /\ \E raises \in BOOLEAN :
        LET f == frame_idx
            depth == args.save_depth_maps
            depth_image == ApiTransform("depth_calc", f, prior_frames, identity)[1]
        IN  /\ raises => depth
            /\ calls' = IF depth
                        THEN Append(calls, Call("transform", <<f>>, prior_frames,
                                                identity))
                        ELSE calls
            /\ depth_maps' = IF depth /\ ~raises
                             THEN [k \in DOMAIN depth_maps \cup {f} |->
                                       IF k = f THEN depth_image ELSE depth_maps[k]]
                             ELSE depth_maps
            /\ seed' = IF raises THEN seed ELSE NextSeed(seed)
            /\ frame_idx' = IF raises THEN f ELSE NextFrameIdx(f)
            /\ pc' = IF raises THEN RaisedPc(f) ELSE LoopPc(NextFrameIdx(f))
            /\ loc' = [loc EXCEPT !.raised = raises,
                                  !.returned = IF depth /\ ~raises
                                               THEN loc.returned + 1
                                               ELSE loc.returned]
    /\ UNCHANGED <<args, frame_args, start_frame_idx, diffusion_cadence_ofs,
                   prior_frames, prior_diffused, prior_xforms, out_dir, yielded,
                   resume, prompt_entries, animation_prompts, key_frame_values,
                   negative_prompt, negative_prompt_weight,
                   mask, saved, interrupt, ui, rq>>

\* A new Animator on the same out_dir with resume=True, after a render ended
ResumeAnimation ==
    /\ pc \in {"done", "failed"}
    /\ LET n == Cardinality(DOMAIN out_dir)
       IN  /\ start_frame_idx' = SetupStart(TRUE, n)
           /\ diffusion_cadence_ofs' = SetupOfs(TRUE, n)
           /\ prior_frames' = SetupFrames(TRUE, n)
           /\ prior_diffused' = SetupFrames(TRUE, n)
           /\ prior_xforms' = SetupXforms
           /\ frame_idx' = SetupStart(TRUE, n)
           /\ pc' = LoopPc(SetupStart(TRUE, n))
    /\ resume' = TRUE
    /\ seed' = args.seed
    /\ yielded' = <<>>
    /\ loc' = NoLocals
    /\ calls' = <<>>
    /\ UNCHANGED <<args, frame_args, out_dir, depth_maps, prompt_entries,
                   animation_prompts, key_frame_values, negative_prompt,
                   negative_prompt_weight,
                   mask, saved, interrupt, ui, rq>>

Next == RenderFrame \/ RenderAdvance \/ ResumeAnimation

Spec == Init /\ [][Next]_vars

SpecRun == InitRun /\ [][Next]_vars

SpecSteps == InitSteps /\ [][Next]_vars

SpecMask == InitMask /\ [][Next]_vars

SpecSeed == InitSeed /\ [][Next]_vars

\* next_mask: the mask video yields its next frame m and set_mask stores it
NextMask ==
    /\ pc = "mask"
    /\ \E m \in MaskPixels :
        mask' = [loaded |-> m, px |-> SetMaskPixel(m, args.mask_invert)]
    /\ UNCHANGED <<args, frame_args, start_frame_idx, diffusion_cadence_ofs,
                   prior_frames, prior_diffused, prior_xforms, frame_idx, pc,
                   out_dir, loc, calls, seed, depth_maps, yielded, resume,
                   prompt_entries, animation_prompts, key_frame_values,
                   negative_prompt, negative_prompt_weight,
                   saved, interrupt, ui, rq>>

NextSetMask == NextMask

SpecSetMask == InitSetMask /\ [][NextSetMask]_vars

\* the for loop of animation_ui.render asks the generator for its next
\* frame: the generator runs an iteration up to its yield
UiRenderFrame ==
    /\ ui.pc = "rendering"
    /\ RenderFrame

\* the generator is resumed after the frame the loop has handled
UiRenderAdvance ==
    /\ ui.pc = "rendering"
    /\ ui.seen = Len(yielded)
    /\ RenderAdvance

\* the loop receives a frame: enumerate sets frame_idx, the flag is tested,
\* and the loop either breaks, leaving the generator at its yield, or
\* yields the frame to the page
UiReceive ==
    /\ ui.pc = "rendering"
    /\ pc = "yielded"
    /\ ui.seen < Len(yielded)
    /\ LET u == [ui EXCEPT !.frame_idx = Len(yielded) - 1,
                           !.seen = Len(yielded)]
           files == Cardinality(DOMAIN out_dir)
       IN  /\ ui' = IF UiBreaks(interrupt) THEN UiFinal(u, "", files) ELSE u
           /\ pc' = IF UiBreaks(interrupt) THEN "closed" ELSE pc
    /\ UNCHANGED <<args, frame_args, start_frame_idx, diffusion_cadence_ofs,
                   prior_frames, prior_diffused, prior_xforms, frame_idx,
                   out_dir, loc, calls, seed, depth_maps, yielded, resume,
                   prompt_entries, animation_prompts, key_frame_values,
                   negative_prompt, negative_prompt_weight,
                   mask, saved, interrupt, rq>>

\* the generator raised: the handler sets the error text
UiFailed ==
    /\ ui.pc = "rendering"
    /\ pc = "failed"
    /\ ui' = UiFinal(ui, "Animation terminated early", Cardinality(DOMAIN out_dir))
    /\ UNCHANGED <<args, frame_args, start_frame_idx, diffusion_cadence_ofs,
                   prior_frames, prior_diffused, prior_xforms, frame_idx, pc,
                   out_dir, loc, calls, seed, depth_maps, yielded, resume,
                   prompt_entries, animation_prompts, key_frame_values,
                   negative_prompt, negative_prompt_weight,
                   mask, saved, interrupt, rq>>

\* the generator is exhausted
UiDone ==
    /\ ui.pc = "rendering"
    /\ pc = "done"
    /\ ui' = UiFinal(ui, "", Cardinality(DOMAIN out_dir))
    /\ UNCHANGED <<args, frame_args, start_frame_idx, diffusion_cadence_ofs,
                   prior_frames, prior_diffused, prior_xforms, frame_idx, pc,
                   out_dir, loc, calls, seed, depth_maps, yielded, resume,
                   prompt_entries, animation_prompts, key_frame_values,
                   negative_prompt, negative_prompt_weight,
                   mask, saved, interrupt, rq>>

\* stop(): the Stop button, shown while a render is in progress
Stop ==
    /\ ui.button_stop
    /\ ~interrupt
    /\ interrupt' = TRUE
    /\ ui' = [ui EXCEPT !.at_stop = Cardinality(DOMAIN out_dir)]
    /\ UNCHANGED <<args, frame_args, start_frame_idx, diffusion_cadence_ofs,
                   prior_frames, prior_diffused, prior_xforms, frame_idx, pc,
                   out_dir, loc, calls, seed, depth_maps, yielded, resume,
                   prompt_entries, animation_prompts, key_frame_values,
                   negative_prompt, negative_prompt_weight,
                   mask, saved, rq>>

NextUi ==
    UiRenderFrame \/ UiRenderAdvance \/ UiReceive \/ UiFailed \/ UiDone \/ Stop

SpecUi == InitUi /\ [][NextUi]_vars

\* one iteration of the loop of _run_request: the request is sent; results
\* end the loop; an obfuscated response raises unless it is retried, and
\* a retry adjusts a request that has an image; an RpcError raises on the
\* last attempt and otherwise sleeps before the next attempt
RunRequestAttempt ==
    /\ rq.pc = "attempt"
    /\ \E response \in Responses :
        LET a == rq.attempt
            last == LastAttempt(a, rq.api.max_retries)
            retried == IF response = "obfuscated"
                       THEN ~last /\ rq.api.retry_obfuscation /\ rq.request.has_image
                       ELSE response = "rpc" /\ ~last
            adjusted == [rq.request EXCEPT
                           !.seeds = AdjustSeeds(rq.request.seeds),
                           !.start = AdjustStart(rq.request.start, a)]
        IN  rq' = [rq EXCEPT
                     !.history = Append(rq.history, response),
                     !.pc = IF response = "ok" THEN "returned"
                            ELSE IF retried THEN "attempt"
                            ELSE "raised",
                     !.error = IF response = "ok" THEN "none"
                               ELSE IF retried THEN rq.error
                               ELSE response,
                     !.attempt = IF retried THEN a + 1 ELSE a,
                     !.request = IF retried /\ response = "obfuscated"
                                 THEN adjusted
                                 ELSE rq.request,
                     !.delays = IF retried /\ response = "rpc"
                                THEN Append(rq.delays,
                                            <<a, RetryDelay(rq.api.retry_delay, a)>>)
                                ELSE rq.delays]
    /\ UNCHANGED <<args, frame_args, start_frame_idx, diffusion_cadence_ofs,
                   prior_frames, prior_diffused, prior_xforms, frame_idx, pc,
                   out_dir, loc, calls, seed, depth_maps, yielded, resume,
                   prompt_entries, animation_prompts, key_frame_values,
                   negative_prompt, negative_prompt_weight,
                   mask, saved, interrupt, ui>>

NextRequest == RunRequestAttempt

SpecRequest == InitRequest /\ [][NextRequest]_vars

\* the loop runs on: an enabled iteration is eventually taken
SpecRequestFair == SpecRequest /\ WF_vars(NextRequest)

\* save_settings writes the settings document
SaveSettings ==
    /\ pc = "curves"
    /\ saved' = [doc |-> SaveDict(args), args |-> args, frame_args |-> frame_args]
    /\ pc' = "saved"
    /\ UNCHANGED <<args, frame_args, start_frame_idx, diffusion_cadence_ofs,
                   prior_frames, prior_diffused, prior_xforms, frame_idx,
                   out_dir, loc, calls, seed, depth_maps, yielded, resume,
                   prompt_entries, animation_prompts, key_frame_values,
                   negative_prompt, negative_prompt_weight,
                   mask, interrupt, ui, rq>>

\* the document is read back, the settings are reset to their defaults and
\* set from it, and an Animator built on them expands the curves
LoadSettings ==
    /\ pc = "saved"
    /\ args' = LoadedArgs(args, saved.doc)
    /\ frame_args' = SetupSeries(LoadedArgs(args, saved.doc))
    /\ pc' = "loaded"
    /\ UNCHANGED <<start_frame_idx, diffusion_cadence_ofs,
                   prior_frames, prior_diffused, prior_xforms, frame_idx,
                   out_dir, loc, calls, seed, depth_maps, yielded, resume,
                   prompt_entries, animation_prompts, key_frame_values,
                   negative_prompt, negative_prompt_weight,
                   mask, saved, interrupt, ui, rq>>

NextCurves == SaveSettings \/ LoadSettings

SpecCurves == InitCurves /\ [][NextCurves]_vars

\* render's lines that resolve the prompts of frame frame_idx
ResolvePrompts ==
    /\ pc = "prompts"
    /\ LET key == GetAnimationPromptsWeights(frame_idx)
           pw == FramePrompts(frame_idx)
       IN  loc' = [NoLocals EXCEPT !.frame_idx = frame_idx,
                                   !.key_prompts = key.prompts,
                                   !.key_weights = key.weights,
                                   !.prompts = pw.prompts,
                                   !.weights = pw.weights]
    /\ pc' = "resolved"
    /\ UNCHANGED <<args, frame_args, start_frame_idx, diffusion_cadence_ofs,
                   prior_frames, prior_diffused, prior_xforms, frame_idx,
                   out_dir, calls, seed, depth_maps, yielded, resume,
                   prompt_entries, animation_prompts, key_frame_values,
                   negative_prompt, negative_prompt_weight,
                   mask, saved, interrupt, ui, rq>>

NextPrompts == ResolvePrompts

SpecPrompts == InitPrompts /\ [][NextPrompts]_vars

----------------------------------------------------------------------------
(* Properties of the cadence scheduler and of the frame window *)

\* the values read off one iteration of render
CallCount(api) == Cardinality({i \in 1 .. Len(calls) : calls[i].api = api})

FrameDone == pc = "yielded"

FrameBoundary == pc \in {"loop", "yielded", "done"}

SeriesValue(f) == frame_args.diffusion_cadence_series[f + 1]

ConstantCadenceSeries ==
    \A i, j \in 1 .. MaxFrames :
        frame_args.diffusion_cadence_series[i] = frame_args.diffusion_cadence_series[j]

\* C1: a frame that reaches the cadence step calls Api.generate if and only
\* if (f - offset) mod cadence = 0, with the cadence of the frame and the
\* offset held when the frame began; otherwise it calls Api.interpolate and
\* does not call Api.generate.
C1_SynthesizeIffOffsetDivides ==
    loc.state # "NONE" =>
        LET due == (loc.frame_idx - loc.ofs) % loc.diffusion_cadence = 0
        IN  /\ due <=> loc.state = "SYNTHESIZE"
            /\ due <=> CallCount("generate") = 1
            /\ ~due <=> loc.state = "TWEEN"
            /\ ~due => CallCount("interpolate") = 1 /\ CallCount("generate") = 0
            /\ due => CallCount("interpolate") = 0

C1_Witness ==
    /\ FrameDone
    /\ loc.state = "TWEEN"
    /\ loc.ofs > 0
    /\ CallCount("interpolate") = 1

\* C2: with a constant cadence c, in a run that started at frame 0 with
\* offset 0 and met no failure, frame f is a SYNTHESIZE frame exactly when
\* f mod c = 0 and is otherwise a TWEEN of ratio (f mod c)/c, so the ratios
\* between two synthesis frames are 1/c, 2/c, ..., (c-1)/c in this order.
C2_ConstantCadenceSchedule ==
    (FrameDone /\ ConstantCadenceSeries /\ start_frame_idx = 0) =>
        LET c == loc.diffusion_cadence
            f == loc.frame_idx
        IN  /\ (loc.state = "SYNTHESIZE") <=> (f % c = 0)
            /\ (loc.state = "TWEEN") <=> (f % c # 0)
            /\ loc.state = "TWEEN" =>
                   /\ loc.tween = <<f % c, c>>
                   /\ loc.tween[1] \in 1 .. (c - 1)
                   /\ diffusion_cadence_ofs = f - (f % c)

C2_Witness ==
    /\ FrameDone
    /\ ConstantCadenceSeries
    /\ start_frame_idx = 0
    /\ loc.state = "TWEEN"
    /\ loc.tween = <<2, 3>>

\* C3 as stated: the cadence of a frame is max(1, round(series value)),
\* rounding to the nearest integer.
C3_CadenceIsRounded ==
    loc.frame_idx >= 0 =>
        loc.diffusion_cadence = Max(1, PyRound(SeriesValue(loc.frame_idx)))

\* C3 amended: the cadence of a frame is the series value truncated toward
\* zero and then floored at 1: it is the integer c >= 1 with c <= value <
\* c + 1 when the value is at least 1, and 1 for any value below 1.
C3_CadenceIsTruncated ==
    loc.frame_idx >= 0 =>
        LET q == SeriesValue(loc.frame_idx)
            c == loc.diffusion_cadence
        IN  /\ c >= 1
            /\ q < 4 => c = 1
            /\ q >= 4 => (4 * c <= q /\ q < 4 * (c + 1))

C3_Witness ==
    /\ loc.frame_idx >= 0
    /\ SeriesValue(loc.frame_idx) = 11
    /\ loc.diffusion_cadence = 2

\* C4: diffusion_cadence_ofs is the index of the latest SYNTHESIZE frame of
\* the run (the frame whose image is the newest of prior_diffused), or the
\* start index when the run has synthesized nothing; it becomes f exactly
\* when the synthesis of frame f succeeds, a TWEEN or a failed frame leaves
\* it alone, and it never exceeds the index of the frame being processed.
C4_OffsetIsLastSynthesis ==
    /\ diffusion_cadence_ofs =
           IF Len(prior_diffused) = 2 /\ prior_diffused[2].op = "generate"
           THEN prior_diffused[2].n[1]
           ELSE start_frame_idx
    /\ diffusion_cadence_ofs <= frame_idx
    /\ diffusion_cadence_ofs >= start_frame_idx
    /\ loc.frame_idx >= 0 =>
           diffusion_cadence_ofs =
               IF loc.state = "SYNTHESIZE" /\ loc.image # NoImage
               THEN loc.frame_idx
               ELSE loc.ofs

C4_Witness ==
    /\ FrameDone
    /\ start_frame_idx > 0
    /\ loc.state = "TWEEN"
    /\ diffusion_cadence_ofs = start_frame_idx
    /\ frame_idx > start_frame_idx

\* C5: a SYNTHESIZE frame that found a populated window and received image R
\* leaves prior_diffused = [old prior_diffused[1], R] and prior_frames =
\* [old prior_frames[1], R], old being the window handed to the synthesis.
C5_WindowShiftsLeft ==
    (FrameDone /\ loc.state = "SYNTHESIZE" /\ Len(loc.w_frames) = 2) =>
        /\ prior_diffused = <<loc.w_diffused[2], loc.image>>
        /\ prior_frames = <<loc.w_frames[2], loc.image>>

C5_Witness ==
    /\ FrameDone
    /\ loc.state = "SYNTHESIZE"
    /\ Len(loc.w_frames) = 2
    /\ loc.w_frames[1] # loc.w_frames[2]
    /\ loc.w_diffused[1] # loc.w_diffused[2]

\* C6 as stated: after every SYNTHESIZE frame prior_xforms is
\* [identity, identity].
C6_XformsResetToIdentity ==
    (FrameDone /\ loc.state = "SYNTHESIZE") =>
        prior_xforms = <<identity, identity>>

\* C6 amended: after every SYNTHESIZE frame prior_xforms is [X, identity],
\* X being the transform slot 1 had accumulated when the synthesis was
\* requested: only the slot of the new image is reset, and slot 0 keeps the
\* transform of the image that moved into it.
C6_NewSlotResetOldSlotKept ==
    (FrameDone /\ loc.state = "SYNTHESIZE") =>
        /\ Len(prior_xforms) = 2
        /\ prior_xforms[2] = identity
        /\ prior_xforms[1] = loc.w_xforms[2]

C6_Witness ==
    /\ FrameDone
    /\ loc.state = "SYNTHESIZE"
    /\ loc.w_xforms[2] # identity
    /\ prior_xforms[1] # identity

\* C7 as stated: at every frame boundary prior_frames, prior_diffused and
\* prior_xforms have the same length, 0 or 2.
C7_ThreeEqualLengths ==
    FrameBoundary =>
        /\ Len(prior_frames) = Len(prior_diffused)
        /\ Len(prior_diffused) = Len(prior_xforms)
        /\ Len(prior_frames) \in {0, 2}

\* C7 amended: at every frame boundary prior_frames and prior_diffused have
\* the same length, 0 or 2, and prior_xforms has length 2 (also while the
\* window is still empty).
C7_WindowLengths ==
    FrameBoundary =>
        /\ Len(prior_frames) = Len(prior_diffused)
        /\ Len(prior_frames) \in {0, 2}
        /\ Len(prior_xforms) = 2

C7_Witness ==
    /\ pc = "loop"
    /\ start_frame_idx > 0
    /\ frame_idx > start_frame_idx
    /\ Len(prior_frames) = 2
    /\ Len(prior_xforms) = 2

\* C8: the frame a SYNTHESIZE frame writes is the new image when the cadence
\* is 1, and otherwise slot 0 of prior_frames as the advance left it.
C8_SynthesizeOutFrame ==
    (FrameDone /\ loc.state = "SYNTHESIZE") =>
        loc.out_frame = IF loc.diffusion_cadence = 1
                        THEN loc.image
                        ELSE prior_frames[1]

C8_Witness ==
    /\ FrameDone
    /\ loc.state = "SYNTHESIZE"
    /\ loc.diffusion_cadence > 1
    /\ loc.out_frame = prior_frames[1]
    /\ loc.out_frame # loc.image

\* C9: the cadence step of a TWEEN frame calls Api.interpolate exactly once,
\* on prior_frames[0] and prior_frames[1] at ratio ((f - offset) mod
\* cadence)/cadence, writes what it returns, and leaves prior_frames,
\* prior_diffused, prior_xforms and diffusion_cadence_ofs as they were.
C9_TweenInterpolatesOnce ==
    (FrameDone /\ loc.state = "TWEEN") =>
        LET num == (loc.frame_idx - loc.ofs) % loc.diffusion_cadence
            den == loc.diffusion_cadence
            pair == <<prior_frames[1], prior_frames[2]>>
        IN  /\ CallCount("interpolate") = 1
            /\ calls[Len(calls)] = Call("interpolate", <<num, den>>, pair, identity)
            /\ loc.out_frame = ApiInterpolate(pair, num, den)
            /\ prior_frames = loc.w_frames
            /\ prior_diffused = loc.w_diffused
            /\ prior_xforms = loc.w_xforms
            /\ diffusion_cadence_ofs = loc.ofs

C9_Witness ==
    /\ FrameDone
    /\ loc.state = "TWEEN"
    /\ loc.ofs > 0
    /\ prior_frames[1] # prior_frames[2]
    /\ loc.out_frame.op = "interpolate"

\* the frame after which the image of a window slot entered the window
SlotBirth(image) ==
    IF image.op = "generate" THEN image.n[1] ELSE start_frame_idx - 1

\* the last frame the run has processed
LastProcessed == IF pc = "yielded" THEN frame_idx ELSE frame_idx - 1

RECURSIVE XformProduct(_, _)
\* T_hi . ... . T_lo, the later increment on the left
XformProduct(lo, hi) ==
    IF hi < lo THEN identity
    ELSE multiply(FrameXform(hi), XformProduct(lo, hi - 1))

\* C10: with accumulate_xforms, at every frame boundary prior_xforms[i] is
\* the product, later increments on the left, of the increments of exactly
\* the frames processed since the image of prior_diffused[i] was synthesized
\* or loaded; it is identity for an image synthesized in the last frame.
C10_AccumulatedXformIsProduct ==
    (args.accumulate_xforms /\ FrameBoundary /\ Len(prior_diffused) = 2) =>
        \A i \in 1 .. 2 :
            prior_xforms[i] =
                XformProduct(SlotBirth(prior_diffused[i]) + 1, LastProcessed)

C10_Witness ==
    /\ args.accumulate_xforms
    /\ pc = "loop"
    /\ Len(prior_diffused) = 2
    /\ Len(prior_xforms[1]) >= 2
    /\ prior_xforms[2] # identity
    /\ prior_xforms[1] # prior_xforms[2]

----------------------------------------------------------------------------
(* Properties of the warps, of failures, of the frame order and of resume *)

\* position in calls of the call of the cadence step (generate or interpolate)
CadenceCallIndex ==
    CHOOSE i \in 1 .. Len(calls) : calls[i].api \in {"generate", "interpolate"}

\* the matrix C11 expects for a slot whose accumulated transform is x
ExpectedWarpMatrix(f, x) ==
    IF args.animation_mode = "2D" THEN <<0>> \o x ELSE <<-(f + 1)>> \o x

\* C11: with accumulate_xforms, a transform step that issues warps and
\* completes issues one Api.transform per window slot; the warp of slot i
\* takes prior_diffused[i] as its only image (also when prior_frames[i]
\* differs) and the slot's accumulated transform as its matrix (its 2D part
\* in 2D, projection times it in 3D); what it returns becomes prior_frames[i]
\* and prior_diffused stays as it was.
C11_WarpsReadDiffusedSlots ==
    (args.accumulate_xforms /\ loc.state # "NONE" /\ CadenceCallIndex > 1) =>
        LET f == loc.frame_idx
        IN  /\ CadenceCallIndex - 1 = 2
            /\ Len(loc.s_diffused) = 2
            /\ loc.w_diffused = loc.s_diffused
            /\ \A i \in 1 .. 2 :
                 LET m == ExpectedWarpMatrix(f, loc.w_xforms[i])
                 IN  /\ loc.w_xforms[i] = multiply(FrameXform(f), loc.s_xforms[i])
                     /\ calls[i] = Call("transform", <<f>>, <<loc.s_diffused[i]>>, m)
                     /\ loc.w_frames[i] = Img(WarpOp, <<f>>, <<loc.s_diffused[i]>>, m)

C11_Witness ==
    /\ args.accumulate_xforms
    /\ args.animation_mode = "3D"
    /\ FrameDone
    /\ CadenceCallIndex = 3
    /\ loc.s_frames[1] # loc.s_diffused[1]
    /\ loc.s_frames[2] # loc.s_diffused[2]
    /\ loc.w_xforms[1] # loc.w_xforms[2]
    /\ loc.w_frames[1].srcs = <<loc.s_diffused[1]>>

\* C12: when a backend call raises while frame f is processed, render ends
\* there: the step writes and yields nothing and leaves every file as it
\* was, out_dir holds no frame above f, the call that raised was issued once
\* (one call more than the calls that returned), and the only step that can
\* follow is the construction of a new Animator.
C12_RaiseEndsRender ==
    [][/\ loc'.raised =>
            /\ pc' = "failed"
            /\ frame_idx' = frame_idx
            /\ out_dir' = out_dir
            /\ yielded' = yielded
            /\ DOMAIN out_dir' \subseteq 0 .. frame_idx
            /\ Len(calls') = loc'.returned + 1
       /\ loc.raised =>
            /\ loc' = NoLocals
            /\ calls' = <<>>
            /\ yielded' = <<>>
            /\ resume'
            /\ out_dir' = out_dir]_vars

C12_Witness ==
    /\ pc = "failed"
    /\ loc.raised
    /\ resume
    /\ loc.state = "NONE"
    /\ Len(calls) = 2
    /\ loc.returned = 1
    /\ frame_idx >= 1
    /\ DOMAIN out_dir = 0 .. (frame_idx - 1)

\* C13: the k-th frame a render writes and yields has index start_frame_idx
\* + k - 1; the files of out_dir are the indices 0 .. start_frame_idx +
\* (frames yielded) - 1 without a gap; a frame begins only when all frames
\* before it are written, and a render that failed at a frame has written
\* nothing beyond it.
C13_FramesInOrderNoGaps ==
    LET written == start_frame_idx + Len(yielded)
    IN  /\ \A k \in 1 .. Len(yielded) : yielded[k] = start_frame_idx + k - 1
        /\ DOMAIN out_dir = 0 .. (written - 1)
        /\ pc = "loop" => frame_idx = written
        /\ pc = "yielded" => frame_idx = written - 1
        /\ pc = "done" => frame_idx = written
        /\ pc = "failed" => frame_idx \in {written - 1, written}
        /\ loc.frame_idx >= 0 => loc.frame_idx \in {written - 1, written}

C13_Witness ==
    /\ pc = "yielded"
    /\ start_frame_idx > 0
    /\ Len(yielded) = 2
    /\ yielded[2] = start_frame_idx + 1

\* C14: an Animator built with resume on an out_dir of N frame files has
\* start_frame_idx = N, has diffusion_cadence_ofs = N until its first
\* synthesis, and the first frame its render processes has index N and sees
\* offset N.
C14_ResumeStartsAtFileCount ==
    resume =>
        LET N == Cardinality(DOMAIN out_dir) - Len(yielded)
        IN  /\ start_frame_idx = N
            /\ loc = NoLocals => (diffusion_cadence_ofs = N /\ frame_idx = N)
            /\ Len(yielded) >= 1 => yielded[1] = N
            /\ (loc.frame_idx >= 0 /\ Len(yielded) <= 1 /\ loc.frame_idx = N) =>
                   loc.ofs = N

C14_Witness ==
    /\ resume
    /\ start_frame_idx = 2
    /\ pc = "yielded"
    /\ yielded = <<2>>
    /\ loc.ofs = 2

\* C15 as stated: an Animator built with resume on N >= 2 frame files has
\* prior_frames and prior_diffused both equal to [frame N-2, frame N-1] read
\* from the files.
C15_ResumeSeedsWindow ==
    (resume /\ loc = NoLocals /\ start_frame_idx >= 2) =>
        /\ prior_frames = <<FrameFile(start_frame_idx - 2),
                            FrameFile(start_frame_idx - 1)>>
        /\ prior_diffused = prior_frames

\* C16: the seed of frame f (the seed given to Api.generate when f is
\* synthesized) is args.seed plus the number of frames this render yielded
\* before f when locked_seed is off, whether those frames were synthesized or
\* interpolated, and args.seed when locked_seed is on.
C16_SeedPerFrame ==
    /\ loc.frame_idx >= 0 =>
           LET before == Cardinality({k \in 1 .. Len(yielded) :
                                          yielded[k] < loc.frame_idx})
           IN  /\ loc.seed = IF args.locked_seed THEN args.seed
                             ELSE SeedPlus(args.seed, before)
               /\ \A i \in 1 .. Len(calls) :
                      calls[i].api = "generate" => calls[i].kw.seed = loc.seed
    /\ pc = "loop" =>
           seed = IF args.locked_seed THEN args.seed
                  ELSE SeedPlus(args.seed, Len(yielded))

C16_Witness ==
    /\ ~args.locked_seed
    /\ FrameDone
    /\ loc.state = "SYNTHESIZE"
    /\ loc.frame_idx = start_frame_idx + 2
    /\ loc.ofs = start_frame_idx
    /\ calls[Len(calls)].kw.seed = SeedPlus(args.seed, 2)

----------------------------------------------------------------------------
(* Properties of the prompts of a frame and of the keyframe checks *)

\* the keys of the schedule the Animator holds
Keys == DOMAIN animation_prompts

\* the greatest key at or below f
KeyAtOrBefore(f) ==
    CHOOSE k \in Keys : k <= f /\ \A j \in Keys : j <= f => j <= k

\* the least key above f
KeyAfter(f) ==
    CHOOSE k \in Keys : k > f /\ \A j \in Keys : j > f => k <= j

\* C17: with interpolate_prompts off, get_animation_prompts_weights(f)
\* returns one prompt, that of the greatest key <= f, and the one weight 1.
C17_SinglePromptOfLatestKey ==
    (pc = "resolved" /\ ~args.interpolate_prompts) =>
        /\ loc.key_prompts = <<animation_prompts[KeyAtOrBefore(frame_idx)]>>
        /\ loc.key_weights = <<One>>

C17_Witness ==
    /\ pc = "resolved"
    /\ ~args.interpolate_prompts
    /\ Len(key_frame_values) = 3
    /\ frame_idx = key_frame_values[2]
    /\ prompt_entries[1] = key_frame_values[3]
    /\ loc.key_prompts = <<animation_prompts[frame_idx]>>

\* C18: with interpolate_prompts on, get_animation_prompts_weights(f)
\* returns the prompt of the last key alone with weight 1 when f is at or
\* after the last key, and otherwise the prompts of prev and next, the keys
\* with prev <= f < next and none between, in this order, with weights
\* (1 - t, t), t = (f - prev)/(next - prev), 0 <= t < 1, of sum 1.
C18_InterpolatedPrompts ==
    (pc = "resolved" /\ args.interpolate_prompts) =>
        LET f == frame_idx
            prev == KeyAtOrBefore(f)
        IN  IF \A k \in Keys : k <= f
            THEN /\ loc.key_prompts = <<animation_prompts[prev]>>
                 /\ loc.key_weights = <<One>>
            ELSE LET next == KeyAfter(f)
                     w == loc.key_weights
                 IN  /\ loc.key_prompts = <<animation_prompts[prev],
                                            animation_prompts[next]>>
                     /\ Len(w) = 2
                     /\ w[2][2] > 0 /\ w[1][2] > 0
                     /\ w[2][1] * (next - prev) = (f - prev) * w[2][2]
                     /\ 0 <= w[2][1] /\ w[2][1] < w[2][2]
                     /\ w[1][1] * w[2][2] + w[2][1] * w[1][2] = w[1][2] * w[2][2]

C18_Witness ==
    /\ pc = "resolved"
    /\ args.interpolate_prompts
    /\ key_frame_values = <<0, 1, 4>>
    /\ frame_idx = 2
    /\ loc.key_weights = <<<<2, 3>>, <<1, 3>>>>
    /\ loc.key_prompts = <<animation_prompts[1], animation_prompts[4]>>

\* C19: the prompts of a frame are those of the schedule followed by the
\* negative prompt exactly when the negative prompt is not empty and its
\* weight is not 0, and the weight it then gets is -|w|, below 0.
C19_NegativePromptLast ==
    pc = "resolved" =>
        LET w == negative_prompt_weight
            absw == IF w[1] >= 0 THEN w[1] ELSE -w[1]
        IN  IF PromptLen(negative_prompt) > 0 /\ w[1] # 0
            THEN /\ loc.prompts = Append(loc.key_prompts, negative_prompt)
                 /\ loc.weights = Append(loc.key_weights, <<-absw, w[2]>>)
                 /\ loc.weights[Len(loc.weights)][1] < 0
            ELSE /\ loc.prompts = loc.key_prompts
                 /\ loc.weights = loc.key_weights

C19_Witness ==
    /\ pc = "resolved"
    /\ negative_prompt = NegativeText
    /\ negative_prompt_weight = <<1, 2>>
    /\ Len(loc.prompts) = 3
    /\ loc.prompts[3] = NegativeText
    /\ loc.weights[3] = <<-1, 2>>

\* a key written more than once in the schedule
HasDuplicateKey ==
    \E i, j \in DOMAIN prompt_entries : i # j /\ prompt_entries[i] = prompt_entries[j]

HasKeyZero == \E i \in DOMAIN prompt_entries : prompt_entries[i] = 0

\* C20 as stated: the construction of an Animator fails in setup, with no
\* frame written or yielded and no Api call made, when the schedule has no
\* key 0 or has a key more than once.
C20_InvalidScheduleFailsSetup ==
    (~HasKeyZero \/ HasDuplicateKey) =>
        /\ pc = "setup_error"
        /\ out_dir = <<>>
        /\ yielded = <<>>
        /\ calls = <<>>

----------------------------------------------------------------------------
(* Properties of the synthesis request *)

\* the generate calls of the iteration
GenerateCalls == {i \in 1 .. Len(calls) : calls[i].api = "generate"}

\* C21: the strength of a frame is its series value raised to 0 when below;
\* with steps_strength_adj the steps of the frame are max(5, floor(steps *
\* (1 - strength))), between 5 and max(5, steps), and without it they are the
\* frame's steps; Api.generate is asked for exactly these steps.
C21_AdjustedSteps ==
    loc.frame_idx >= 0 =>
        LET steps == frame_args.steps_series[loc.frame_idx + 1] \div 4
            q == frame_args.strength_series[loc.frame_idx + 1]
            strength == IF q < 0 THEN 0 ELSE q
            scaled == (steps * (4 - strength)) \div 4
        IN  /\ loc.strength = strength
            /\ args.steps_strength_adj =>
                   /\ loc.adjusted_steps = Max(5, scaled)
                   /\ loc.adjusted_steps >= 5
                   /\ loc.adjusted_steps <= Max(5, steps)
            /\ ~args.steps_strength_adj => loc.adjusted_steps = steps
            /\ \A i \in GenerateCalls : calls[i].kw.steps = loc.adjusted_steps

C21_Witness ==
    /\ args.steps_strength_adj
    /\ FrameDone
    /\ loc.state = "SYNTHESIZE"
    /\ frame_args.steps_series[loc.frame_idx + 1] = 120
    /\ frame_args.strength_series[loc.frame_idx + 1] = 3
    /\ calls[Len(calls)].kw.steps = 7

\* C22: Api.generate is given an init image exactly when the window that
\* reaches the synthesis is populated and the strength of the frame is above
\* 0; the init image is then slot 1 of prior_frames, or what prepare_init
\* made of it.
C22_InitImageIffWindowAndStrength ==
    \A i \in GenerateCalls :
        LET init == calls[i].imgs
            newest == loc.w_frames[Len(loc.w_frames)]
        IN  /\ Len(init) \in {0, 1}
            /\ Len(init) = 1 <=> (Len(loc.w_frames) > 0 /\ loc.strength > 0)
            /\ Len(init) = 1 =>
                   IF init[1].op = "add_noise"
                   THEN init[1].srcs = <<newest>>
                   ELSE init[1] = newest

C22_Witness ==
    /\ FrameDone
    /\ loc.state = "SYNTHESIZE"
    /\ Len(loc.w_frames) = 2
    /\ loc.w_frames[1] # loc.w_frames[2]
    /\ loc.strength = 0
    /\ loc.image.srcs = <<>>
    /\ prior_diffused[1].srcs # <<>>

----------------------------------------------------------------------------
(* The neutral fast path of transform_2d *)

RECURSIVE Pixels(_)
\* the content of an image: a warp gives the same pixels whenever it is asked
\* for the same image and matrix, and a warp by the identity gives its source
Pixels(img) ==
    IF img.op = "warp2d"
    THEN IF img.m \in {identity, <<0>>}
         THEN Pixels(img.srcs[1])
         ELSE Img("warp2d", <<>>, <<Pixels(img.srcs[1])>>, img.m)
    ELSE Img(img.op, img.n, [i \in 1 .. Len(img.srcs) |-> Pixels(img.srcs[i])],
             img.m)

\* what the accumulate-and-warp path of transform_2d leaves in slot i for an
\* identity increment
IdentityIncrementFrame(i) ==
    IF args.accumulate_xforms
    THEN Pixels(Img("warp2d", <<>>, <<loc.s_diffused[i]>>,
                    <<0>> \o multiply(identity, loc.s_xforms[i])))
    ELSE Pixels(Img("warp2d", <<>>, <<loc.s_frames[i]>>, identity))

\* a frame of a 2D run with neutral parameters whose transform step found a
\* populated window
NeutralFrame2d ==
    /\ loc.frame_idx >= 0
    /\ args.animation_mode = "2D"
    /\ frame_args.motion_series[loc.frame_idx + 1] = 0
    /\ Len(loc.s_frames) = 2
    /\ Len(loc.t_frames) = 2

\* C23 as stated: in 2D, the transform step of a frame with neutral
\* parameters asks the backend for no warp and leaves prior_frames,
\* prior_diffused and prior_xforms as the accumulate-and-warp path would
\* leave them for an identity increment, with or without a mask.
C23_NeutralFastPathIsIdentityWarp ==
    NeutralFrame2d =>
        /\ \A i \in 1 .. Len(calls) : calls[i].api # "transform"
        /\ loc.w_diffused = loc.s_diffused
        /\ loc.w_xforms = loc.s_xforms
        /\ \A i \in 1 .. 2 : Pixels(loc.t_frames[i]) = IdentityIncrementFrame(i)

----------------------------------------------------------------------------
(* The frame range of a render *)

\* the frames at which a synthesis or an interpolation was requested
RequestedFrames ==
    {calls[i].n[1] : i \in {j \in 1 .. Len(calls) :
                               calls[j].api \in {"generate", "interpolate"}}}

\* C26: a render that ends without a failure has produced exactly max_frames
\* - start_frame_idx frames (none when start_frame_idx >= max_frames); no
\* frame of index max_frames or more is begun, requested or written, so a
\* fresh run and its resumes leave at most max_frames frame files.
C26_StopsAtMaxFrames ==
    /\ pc = "done" =>
           Len(yielded) = Max(0, args.max_frames - start_frame_idx)
    /\ pc \in {"loop", "yielded"} => frame_idx < args.max_frames
    /\ \A f \in RequestedFrames : f < args.max_frames
    /\ \A k \in DOMAIN out_dir : k < args.max_frames
    /\ Cardinality(DOMAIN out_dir) <= args.max_frames

C26_Witness ==
    /\ pc = "done"
    /\ resume
    /\ start_frame_idx = 1
    /\ Len(yielded) = args.max_frames - 1
    /\ Cardinality(DOMAIN out_dir) = args.max_frames

----------------------------------------------------------------------------
(* The mask polarity *)

\* C29: set_mask stores 255 - m for a mask pixel m when mask_invert is off
\* and m itself when it is on; the stored value is in 0 .. 255, and the
\* values stored under the two settings are complements: they sum to 255.
C29_MaskPolarity ==
    mask # NoMask =>
        /\ mask.loaded \in MaskPixels
        /\ mask.px = IF args.mask_invert THEN mask.loaded ELSE 255 - mask.loaded
        /\ mask.px \in 0 .. 255
        /\ SetMaskPixel(mask.loaded, FALSE) + SetMaskPixel(mask.loaded, TRUE) = 255

C29_Witness ==
    /\ ~args.mask_invert
    /\ mask.loaded = 200
    /\ mask.px = 55

----------------------------------------------------------------------------
(* Keyframe curves and the settings document *)

----------------------------------------------------------------------------
(* The render tab: interrupt, failure, depth maps *)

FrameFiles == Cardinality(DOMAIN out_dir)

\* C24: with the interrupt flag set during a render, the loop tests it once
\* for each frame it receives and stops at the first test: at most one
\* frame is written after the flag was set, no written frame file is
\* removed or rewritten, and the tab is idle again (Render shown, Stop
\* hidden) once the loop has stopped.
C24_InterruptStopsCleanly ==
    [][/\ ui'.seen \in {ui.seen, ui.seen + 1}
       /\ (interrupt /\ ui'.seen = ui.seen + 1) =>
              (ui'.pc = "idle" /\ pc' = "closed")
       /\ interrupt' => Cardinality(DOMAIN out_dir') <= ui'.at_stop + 1
       /\ \A k \in DOMAIN out_dir :
              k \in DOMAIN out_dir' /\ out_dir'[k] = out_dir[k]
       /\ ui'.pc = "idle" => (ui'.button /\ ~ui'.button_stop /\ out_dir' = out_dir)
      ]_vars

C24_Witness ==
    /\ interrupt
    /\ pc = "closed"
    /\ ui.pc = "idle"
    /\ ui.at_stop = 1
    /\ FrameFiles = 2
    /\ ui.button
    /\ ~ui.button_stop

\* C25 as stated: a render ended by a failure of the backend after at least
\* one frame was written, exactly one included, keeps the frames and ends
\* as a partial result: the error is shown, the video is built from the
\* written frames and the run is recorded for post-processing.
C25_FailureKeepsPartialResult ==
    (ui.pc = "idle" /\ pc = "failed" /\ FrameFiles >= 1) =>
        /\ DOMAIN out_dir = 0 .. (FrameFiles - 1)
        /\ ui.error # ""
        /\ ui.video
        /\ ui.recorded

\* C30 as stated: with save_depth_maps, once the run has stopped, by
\* reaching max_frames or because the consumer stopped iterating after it
\* received a frame, every frame file has its depth file.
C30_DepthMapForEveryFrame ==
    (args.save_depth_maps /\ ui.pc = "idle" /\ pc \in {"done", "closed"}) =>
        DOMAIN depth_maps = DOMAIN out_dir

----------------------------------------------------------------------------
(* The window a tween finds, and the image of a depth map *)

\* C34: the first frame a run processes sees the cadence offset equal to its
\* index and is a SYNTHESIZE frame, with or without resume; a synthesis that
\* succeeded leaves two frames in prior_frames and in prior_diffused, both
\* the new image when the window was empty; every TWEEN frame finds two
\* frames in the window and Api.interpolate is always given two images.
C34_TweenFindsPopulatedWindow ==
    /\ (loc.frame_idx >= 0 /\ loc.frame_idx = start_frame_idx) =>
           /\ loc.ofs = start_frame_idx
           /\ loc.state \in {"NONE", "SYNTHESIZE"}
    /\ (FrameDone /\ loc.state = "SYNTHESIZE") =>
           /\ Len(prior_frames) = 2
           /\ Len(prior_diffused) = 2
           /\ Len(loc.w_frames) = 0 =>
                  /\ prior_frames = <<loc.image, loc.image>>
                  /\ prior_diffused = <<loc.image, loc.image>>
    /\ loc.state = "TWEEN" =>
           /\ Len(loc.w_frames) = 2
           /\ Len(loc.w_diffused) = 2
           /\ loc.frame_idx > start_frame_idx
    /\ \A i \in 1 .. Len(calls) :
           calls[i].api = "interpolate" =>
               (Len(calls[i].imgs) = 2 /\ NoImage \notin {calls[i].imgs[1],
                                                         calls[i].imgs[2]})

C34_Witness ==
    /\ resume
    /\ ~args.init_image
    /\ start_frame_idx = 1
    /\ FrameDone
    /\ loc.state = "TWEEN"
    /\ loc.frame_idx = 2
    /\ Len(loc.s_frames) = 2
    /\ loc.s_frames[1] = loc.s_frames[2]

\* C38 as stated: the depth map saved for frame k is computed from the image
\* written as frame k, whatever the cadence and on SYNTHESIZE and TWEEN
\* frames alike.
C38_DepthMapOfEmittedFrame ==
    \A k \in DOMAIN depth_maps :
        /\ k \in DOMAIN out_dir
        /\ depth_maps[k].op = "depth_calc"
        /\ depth_maps[k].srcs = <<out_dir[k]>>

----------------------------------------------------------------------------
(* A masked synthesis *)

\* C35 as stated: with a mask configured, every call of Api.generate that
\* render issues carries an init image, the first frame of a run without
\* init image included, so no frame of a masked run is ended by
\* Api.generate refusing a mask without init image.
C35_MaskedSynthesisHasInit ==
    mask # NoMask =>
        \A i \in 1 .. Len(calls) :
            calls[i].api = "generate" => Len(calls[i].imgs) = 1

----------------------------------------------------------------------------
(* The range of the seed *)

\* C36 as stated: the seed of every synthesis request of a run is within
\* 0 .. 2**32 - 1, also when setup_animation drew the initial seed at random
\* from that range and render then added one for each frame.
C36_SeedWithinUint32 ==
    /\ InUint32(args.seed)
    /\ \A i \in 1 .. Len(calls) :
           calls[i].api = "generate" => InUint32(calls[i].kw.seed)

----------------------------------------------------------------------------
(* The schedule of a resumed run *)

RECURSIVE UninterruptedOfs(_)
\* diffusion_cadence_ofs when frame f begins, in a run that started at frame 0
\* and met no failure
UninterruptedOfs(f) ==
    IF f = 0 THEN SetupOfs(FALSE, 0)
    ELSE LET o == UninterruptedOfs(f - 1)
             c == EffectiveCadence(SeriesValue(f - 1))
         IN  NextCadenceOfs(f - 1, o, IsDiffusionFrame(f - 1, o, c))

\* the decision and the tween ratio of frame f in that run
UninterruptedSynthesizes(f) ==
    IsDiffusionFrame(f, UninterruptedOfs(f), EffectiveCadence(SeriesValue(f)))

UninterruptedTween(f) ==
    <<TweenNum(f, UninterruptedOfs(f), EffectiveCadence(SeriesValue(f))),
      EffectiveCadence(SeriesValue(f))>>

\* a frame of a resumed run with a constant cadence that reached its cadence
\* step
ResumedFrame == resume /\ ConstantCadenceSeries /\ loc.state # "NONE"

\* C37 as stated: with a constant cadence, frame f of a run resumed at N
\* written frames takes the SYNTHESIZE/TWEEN decision and the tween ratio
\* of frame f of an uninterrupted run.
C37_ResumeKeepsSchedule ==
    ResumedFrame =>
        /\ (loc.state = "SYNTHESIZE") <=> UninterruptedSynthesizes(loc.frame_idx)
        /\ loc.state = "TWEEN" => loc.tween = UninterruptedTween(loc.frame_idx)

\* C37, amended: a resume restarts the schedule at N: the offset is N when
\* the resumed run begins, and with a constant cadence c frame f >= N of
\* the resumed run takes the decision and the ratio of frame f - N of an
\* uninterrupted run, which are those of frame f when c divides N.
C37_ResumeRestartsSchedule ==
    /\ (resume /\ loc = NoLocals) => diffusion_cadence_ofs = start_frame_idx
    /\ ResumedFrame =>
           LET f == loc.frame_idx
               N == start_frame_idx
           IN  /\ f >= N
               /\ (loc.state = "SYNTHESIZE") <=> UninterruptedSynthesizes(f - N)
               /\ loc.state = "TWEEN" => loc.tween = UninterruptedTween(f - N)
               /\ N % loc.diffusion_cadence = 0 =>
                      /\ (loc.state = "SYNTHESIZE") <=> UninterruptedSynthesizes(f)
                      /\ loc.state = "TWEEN" => loc.tween = UninterruptedTween(f)

C37_Witness ==
    /\ ResumedFrame
    /\ start_frame_idx = 1
    /\ loc.diffusion_cadence = 2
    /\ loc.frame_idx = 2
    /\ loc.state = "TWEEN"
    /\ loc.tween = <<1, 2>>
    /\ UninterruptedSynthesizes(2)

----------------------------------------------------------------------------
(* The ratio of a tween *)

\* C39: on every TWEEN frame, whatever the cadence series, the ratio is
\* k/cadence with 1 <= k <= cadence - 1, so Api.interpolate blends the two
\* frames and never returns an endpoint of the window unchanged; a frame
\* whose effective cadence is 1 is never a TWEEN.
C39_TweenRatioStrictlyInside ==
    /\ loc.state = "TWEEN" =>
           /\ loc.diffusion_cadence >= 2
           /\ loc.tween[2] = loc.diffusion_cadence
           /\ loc.tween[1] \in 1 .. (loc.diffusion_cadence - 1)
           /\ \A i \in 1 .. Len(calls) :
                  calls[i].api = "interpolate" => calls[i].n = loc.tween
           /\ FrameDone =>
                  /\ loc.out_frame.op = "interpolate"
                  /\ loc.out_frame.n = loc.tween
                  /\ loc.out_frame \notin {loc.w_frames[1], loc.w_frames[2]}
    /\ (loc.state # "NONE" /\ loc.diffusion_cadence = 1) =>
           loc.state = "SYNTHESIZE"

C39_Witness ==
    /\ ~ConstantCadenceSeries
    /\ FrameDone
    /\ loc.state = "TWEEN"
    /\ loc.ofs > 0
    /\ loc.tween = <<1, 3>>
    /\ loc.out_frame.op = "interpolate"

----------------------------------------------------------------------------
(* Api._run_request: attempts, delays, obfuscated responses *)

\* the number of times the request was sent
RequestSent == Len(rq.history)

RequestEnded == rq.pc \in {"returned", "raised"}

\* the sends that met an obfuscated response and were followed by a resend
ObfuscationRetries ==
    {i \in 1 .. RequestSent :
        rq.history[i] = "obfuscated" /\ (i < RequestSent \/ rq.pc = "attempt")}

RequestAttemptsBounded ==
    /\ RequestSent <= rq.api.max_retries + 1
    /\ rq.pc = "attempt" => (rq.attempt = RequestSent /\ RequestSent <= rq.api.max_retries)
    /\ \A i \in 1 .. RequestSent :
           rq.history[i] = "ok" => (i = RequestSent /\ rq.pc = "returned")
    /\ rq.pc = "returned" =>
           (RequestSent >= 1 /\ rq.history[RequestSent] = "ok" /\ rq.error = "none")
    /\ \A i \in 1 .. RequestSent :
           (rq.history[i] = "rpc" /\ i <= rq.api.max_retries) =>
               (i < RequestSent \/ rq.pc = "attempt")
    /\ (RequestSent = rq.api.max_retries + 1 /\ rq.history[RequestSent] = "rpc") =>
           (rq.pc = "raised" /\ rq.error = "rpc")
    /\ (rq.pc = "raised" /\ rq.error = "rpc") =>
           (RequestSent = rq.api.max_retries + 1 /\ rq.history[RequestSent] = "rpc")
    /\ rq.pc = "raised" => rq.error \in {"rpc", "obfuscated"}

\* C31: _run_request sends the request at most _max_retries + 1 times; it
\* returns at the first attempt that succeeds and sends nothing after it,
\* sends again after the RpcError of every attempt but the last, raises the
\* RpcError of the last attempt, and always ends, with results or with an
\* exception.
C31_RunRequestTerminates == []RequestAttemptsBounded /\ <>RequestEnded

C31_Witness ==
    /\ rq.api.max_retries = 3
    /\ rq.history = <<"rpc", "rpc", "rpc", "rpc">>
    /\ rq.pc = "raised"
    /\ rq.error = "rpc"

\* C32: after the RpcError of attempt a < _max_retries, _run_request waits
\* _retry_delay * 2^a seconds before the next attempt, so the delays of
\* successive attempts double (1, 2, 4 seconds by default); it does not
\* wait after the failure of the last attempt.
C32_RetryDelaysDouble ==
    /\ \A i \in 1 .. Len(rq.delays) :
           LET a == rq.delays[i][1]
           IN  /\ a < rq.api.max_retries
               /\ rq.history[a + 1] = "rpc"
               /\ rq.delays[i][2] = rq.api.retry_delay * 2 ^ a
    /\ Len(rq.delays) =
           Cardinality({i \in 1 .. RequestSent :
                           rq.history[i] = "rpc" /\ i <= rq.api.max_retries})
    /\ \A i \in 1 .. (Len(rq.delays) - 1) :
           /\ rq.delays[i][1] < rq.delays[i + 1][1]
           /\ rq.delays[i + 1][1] = rq.delays[i][1] + 1 =>
                  rq.delays[i + 1][2] = 2 * rq.delays[i][2]
    /\ (rq.pc = "raised" /\ rq.error = "rpc") =>
           \A i \in 1 .. Len(rq.delays) : rq.delays[i][1] # rq.api.max_retries

C32_Witness ==
    /\ rq.api.max_retries = 3
    /\ rq.api.retry_delay = 1
    /\ rq.pc = "raised"
    /\ rq.delays = <<<<0, 1>>, <<1, 2>>, <<2, 4>>>>

\* C33: an obfuscated response raises ClassifierException at once, nothing
\* resent, unless _retry_obfuscation is enabled; when it is, the request is
\* resent at most _max_retries times, every seed raised by 1 for each
\* resend and the schedule start raised by _retry_schedule_offset, clamped
\* to [0, 1], for each resend that follows an attempt other than the
\* first; an obfuscated last attempt raises the exception.
C33_ObfuscationRetries ==
    LET n == Cardinality(ObfuscationRetries)
        late == Cardinality({i \in ObfuscationRetries : i > 1})
    IN  /\ ~rq.api.retry_obfuscation =>
               /\ n = 0
               /\ rq.request = rq.given
               /\ \A i \in 1 .. RequestSent :
                      rq.history[i] = "obfuscated" =>
                          (i = RequestSent /\ rq.pc = "raised"
                             /\ rq.error = "obfuscated")
        /\ n <= rq.api.max_retries
        /\ n > 0 => rq.request.has_image
        /\ Len(rq.request.seeds) = Len(rq.given.seeds)
        /\ \A k \in 1 .. Len(rq.given.seeds) :
               rq.request.seeds[k] = SeedPlus(rq.given.seeds[k], n)
        /\ rq.request.start =
               IF rq.given.start = -1 THEN -1
               ELSE Min(10, rq.given.start + late * RetryScheduleOffset)
        /\ (RequestSent = rq.api.max_retries + 1
              /\ rq.history[RequestSent] = "obfuscated") =>
               (rq.pc = "raised" /\ rq.error = "obfuscated")

C33_Witness ==
    /\ rq.api.retry_obfuscation
    /\ rq.api.max_retries = 3
    /\ rq.history = <<"obfuscated", "obfuscated", "obfuscated", "obfuscated">>
    /\ rq.pc = "raised"
    /\ rq.error = "obfuscated"
    /\ rq.given.start = 5
    /\ rq.request.start = 7
    /\ rq.request.seeds[1] = Seed(8)

====
